---- MODULE Spec2Model ----
(***************************************************************************)
(* A model of vodafon/rawhttp: the idle-connection pool (pool.go) and the  *)
(* exchange engine of the client (client.go, response.go, request.go).     *)
(*                                                                         *)
(* Spec is one goroutine calling the pool's methods one after another: a   *)
(* call is one step, since nothing else runs between its Lock and Unlock.  *)
(* SpecConc runs goroutines 1..NumThreads against one pool, each call cut  *)
(* into the steps the source performs around and under the pool's mutex.   *)
(* SpecDo runs goroutines 1..NumThreads calling Client.Do on one client,   *)
(* each call cut at its operations on the network and on the pool.         *)
(* SpecCall is one goroutine calling Client.Do, with and without a proxy,  *)
(* every Dial, Write and Read a step of its own (client.go, proxy.go).     *)
(* Time is a clock of whole ticks that may advance between any two steps   *)
(* of Spec and SpecConc; the calls of SpecDo run within one tick; in       *)
(* SpecCall it advances between calls and while a Read is pending.         *)
(* SpecCallLive is SpecCall under fair scheduling, with the clock running  *)
(* on to the deadline of a pending Read.                                   *)
(* SpecHttp runs goroutines 1..NumThreads through DoHTTP, the pool's calls  *)
(* cut at the mutex and the Dial and the exchange as blocking steps.       *)
(* SpecNet is one goroutine in DoHTTP together with the other end of its   *)
(* connections: the address dialed and the bytes the server has sent.      *)
(* SpecMsg is one goroutine that parses, prepares and emits a Request, or  *)
(* parses, questions and resets a Response, without a network.             *)
(***************************************************************************)
EXTENDS Integers, Sequences, FiniteSets, TLC

\* ------------------------------------------------------------------ bounds
\* Connections the environment can create (net.Pipe in the tests, Dial in Do).
MaxConns == 3
\* Last value of the clock.
MaxTime == 2
\* Goroutines that call the pool or the client concurrently.
NumThreads == 2
\* Reads that deliver bytes during one exchange.
MaxChunks == 1
\* Reads that deliver bytes during one exchange of SpecCall; chunks a
\* server of SpecNet sends on one connection.
MaxReads == 2
\* Connections the Dials of SpecCall can create.
MaxDials == 2
\* Header lines of the requests of SpecMsg.
MaxHeaders == 3

\* ------------------------------------------------------- program constants
DefaultMaxIdleConnsPerHost == 5
\* 90 * time.Second; one clock tick is one second.
DefaultIdleTimeout == 90

\* net.Conn(nil)
NilConn == 0
\* The mutex is held by no goroutine.
NoThread == 0

Conns == 1..MaxConns
Threads == 1..NumThreads

\* PoolKey generates a pool key from scheme, host, and port.
PoolKey(scheme, host, port) == scheme \o "://" \o host \o ":" \o port

\* The origins the callers of this model use.
Keys == {PoolKey("http", "a.test", "80"), PoolKey("https", "a.test", "443")}

\* ------------------------------------------------------------------- state
VARIABLES
    conns,           \* ConnPool.conns: key -> sequence of pooledConn {conn, idleAt}
    maxIdlePerHost,  \* ConnPool.maxIdlePerHost
    idleTimeout,     \* ConnPool.idleTimeout
    closed,          \* ConnPool.closed
    mu,              \* ConnPool.mu: the thread holding it, or NoThread
    now,             \* time.Now()
    connClosed,      \* connections on which Close() has been called
    pc,              \* per thread: position in the code
    frame,           \* per thread: locals of the call in progress
    client,          \* Client: whether it has a pool, and DisableKeepAlive
    dialed,          \* the number of connections Dial has created
    last,            \* the most recent ConnPool call of the API driver and what it returned
    order            \* the API driver's log, per key: the connections of the accepted
                     \* Puts, oldest first, less what a Get returned or the pool closed

poolVars == <<conns, maxIdlePerHost, idleTimeout, closed>>
clientVars == <<client, dialed>>
vars == <<conns, maxIdlePerHost, idleTimeout, closed, mu, now, connClosed,
          pc, frame, client, dialed, last, order>>

\* -------------------------------------------------------------- map helpers
\* p.conns[key]: a missing key reads as the nil slice.
Entries(cs, key) == IF key \in DOMAIN cs THEN cs[key] ELSE <<>>

\* p.conns[key] = v
MapSet(cs, key, v) == [k \in (DOMAIN cs) \cup {key} |-> IF k = key THEN v ELSE cs[k]]

\* delete(p.conns, key)
MapDelete(cs, key) == [k \in (DOMAIN cs) \ {key} |-> cs[k]]

\* The empty map, make(map[string][]*pooledConn).
EmptyMap == [k \in {} |-> <<>>]

\* The connections of a sequence of pooledConn.
ConnsOf(entries) == {entries[i].conn : i \in 1..Len(entries)}

\* Every connection the pool holds.
PoolConns(cs) == UNION {ConnsOf(cs[k]) : k \in DOMAIN cs}

RECURSIVE SumLen(_, _)
SumLen(cs, ks) ==
    IF ks = {} THEN 0
    ELSE LET k == CHOOSE x \in ks : TRUE IN Len(cs[k]) + SumLen(cs, ks \ {k})

\* ConnPool.Len returns the total number of idle connections in the pool
\* (Len itself is the length of a sequence here).
PoolLen == SumLen(conns, DOMAIN conns)

\* LenForHost returns the number of idle connections for a specific host key.
LenForHost(key) == Len(Entries(conns, key))

\* ------------------------------------------------------------- NewConnPool
NewMaxIdle(m) == IF m <= 0 THEN DefaultMaxIdleConnsPerHost ELSE m
NewIdleTimeout(d) == IF d <= 0 THEN DefaultIdleTimeout ELSE d

\* The <<maxIdlePerHost, idleTimeout>> the callers of this model construct
\* pools with: two small capacities the runs can fill and the default one,
\* each with a timeout of two ticks, the shortest under which an expired and
\* a valid entry can share a key.
PoolArgs == {<<1, 2>>, <<2, 2>>, <<0, 2>>}

NewConnPool(m, d) ==
    /\ conns = EmptyMap
    /\ maxIdlePerHost = NewMaxIdle(m)
    /\ idleTimeout = NewIdleTimeout(d)
    /\ closed = FALSE
    /\ mu = NoThread

\* -------------------------------------------------------- cleanupKeyLocked
\* mutant of StillValid: an entry idle for exactly idleTimeout is kept.
StillValidInclusive(e, t) == t - e.idleAt <= idleTimeout

\* now.Sub(pc.idleAt) < p.idleTimeout
StillValid(e, t) == t - e.idleAt < idleTimeout

\* The entries cleanupKeyLocked retains, in order.
ValidEntries(entries, t) == SelectSeq(entries, LAMBDA e : StillValid(e, t))

\* The connections cleanupKeyLocked closes.
ExpiredConns(entries, t) ==
    {entries[i].conn : i \in {j \in 1..Len(entries) : ~StillValid(entries[j], t)}}

\* The map after cleanupKeyLocked(key) at time t.
cleanupKeyLocked(cs, key, t) ==
    LET entries == Entries(cs, key)
        valid == ValidEntries(entries, t)
    IN  IF Len(entries) = 0 THEN cs
        ELSE IF Len(valid) = 0 THEN MapDelete(cs, key)
        ELSE MapSet(cs, key, valid)

\* -------------------------------------------------------- Get / Put pieces
\* mutant of GetRest: Get leaves the entry it returns in the slice.
GetRestKeepsAll(loaded) == loaded

\* The slice Get stores back: conns[:n] with n = len(conns) - 1.
GetRest(loaded) == SubSeq(loaded, 1, Len(loaded) - 1)

\* mutant of GetPick: Get hands out the oldest entry instead of the newest.
GetPickOldest(loaded) == loaded[1]

\* The entry Get returns: conns[n].
GetPick(loaded) == loaded[Len(loaded)]

\* mutant of PoolFull: the capacity test lets one entry too many in.
PoolFullOffByOne(loaded) == Len(loaded) > maxIdlePerHost

\* len(conns) >= p.maxIdlePerHost: the pool is full for this host.
PoolFull(loaded) == Len(loaded) >= maxIdlePerHost

\* mutant of PutStore: the new entry goes to the front of the slice.
PutStoreFront(loaded, c, t) == <<[conn |-> c, idleAt |-> t]>> \o loaded

\* append(conns, &pooledConn{conn: conn, idleAt: time.Now()})
PutStore(loaded, c, t) == Append(loaded, [conn |-> c, idleAt |-> t])

\* ------------------------------------------------- the pool's methods
\* What Get(key) does to a pool with map cs at time t: the map it leaves,
\* the connection it returns and the connections it closes.
GetOutcome(cs, key, t) ==
    IF closed THEN [conns |-> cs, ret |-> NilConn, shut |-> {}]
    ELSE LET cleaned == cleanupKeyLocked(cs, key, t)
             loaded == Entries(cleaned, key)
             shut == ExpiredConns(Entries(cs, key), t)
         IN  IF Len(loaded) = 0
             THEN [conns |-> cleaned, ret |-> NilConn, shut |-> shut]
             ELSE [conns |-> MapSet(cleaned, key, GetRest(loaded)),
                   ret |-> GetPick(loaded).conn, shut |-> shut]

\* mutant of PutOutcome: the capacity is tested on the entries as they
\* were, before the expired ones are evicted.
PutOutcomeCapacityFirst(cs, key, c, t) ==
    IF c = NilConn \/ closed THEN [conns |-> cs, ok |-> FALSE, shut |-> {}]
    ELSE LET cleaned == cleanupKeyLocked(cs, key, t)
             loaded == Entries(cleaned, key)
             shut == ExpiredConns(Entries(cs, key), t)
         IN  IF PoolFull(Entries(cs, key))
             THEN [conns |-> cleaned, ok |-> FALSE, shut |-> shut]
             ELSE [conns |-> MapSet(cleaned, key, PutStore(loaded, c, t)),
                   ok |-> TRUE, shut |-> shut]

\* What Put(key, c) does to a pool with map cs at time t.
PutOutcome(cs, key, c, t) ==
    IF c = NilConn \/ closed THEN [conns |-> cs, ok |-> FALSE, shut |-> {}]
    ELSE LET cleaned == cleanupKeyLocked(cs, key, t)
             loaded == Entries(cleaned, key)
             shut == ExpiredConns(Entries(cs, key), t)
         IN  IF PoolFull(loaded)
             THEN [conns |-> cleaned, ok |-> FALSE, shut |-> shut]
             ELSE [conns |-> MapSet(cleaned, key, PutStore(loaded, c, t)),
                   ok |-> TRUE, shut |-> shut]

\* The API driver has made no call yet.
NoCall == [op |-> "none", key |-> "", conn |-> NilConn, ok |-> FALSE,
           shut |-> {}, afterIdle |-> FALSE, run |-> 0]

\* Whether the call op comes right after a CloseIdle (a Put), or right after
\* an accepted Put that came right after a CloseIdle (a Get).
AfterIdle(op) ==
    CASE op = "Put" -> last.op = "CloseIdle"
      [] op = "Get" -> last.op = "Put" /\ last.ok /\ last.afterIdle
      [] OTHER -> FALSE

\* The record of a call: the method, its key, the connection passed or
\* returned, whether it returned true or a connection, the connections it
\* closed, its place after a CloseIdle, and the run of Puts it extends.
Called(op, k, c, ok, shut, run) ==
    [op |-> op, key |-> k, conn |-> c, ok |-> ok, shut |-> shut,
     afterIdle |-> AfterIdle(op), run |-> run]

\* mutant of CanLock: Lock() does not wait for the holder of the mutex.
CanLockAlways(t) == TRUE

\* p.mu.Lock() succeeds for a thread when no thread holds the mutex.
CanLock(t) == mu = NoThread

\* ------------------------------------------------- Spec: the pool's API
\* One goroutine calls the pool one method after another, as the tests of
\* the pool do.  It puts nil or a connection it holds: one that is neither
\* idle in the pool nor closed.

\* The log without the connections in gone.
Without(log, gone) ==
    [k \in DOMAIN log |-> SelectSeq(log[k], LAMBDA c : c \notin gone)]

\* The log with c accepted under k.
Logged(log, k, c) == [log EXCEPT ![k] = Append(log[k], c)]

\* The length of the run of consecutive Puts of non-nil connections under k
\* on an open pool, none of which evicted anything, that this Put extends.
RunAfterPut(k, c, shut) ==
    IF c = NilConn \/ closed \/ shut # {} THEN 0
    ELSE IF last.op = "Put" /\ last.key = k /\ last.run > 0
         THEN IF last.run > maxIdlePerHost THEN last.run ELSE last.run + 1
         ELSE 1

Get(k) ==
    LET o == GetOutcome(conns, k, now) IN
    /\ CanLock(NoThread)
    /\ conns' = o.conns
    /\ connClosed' = connClosed \cup o.shut
    /\ last' = Called("Get", k, o.ret, o.ret # NilConn, o.shut, 0)
    /\ order' = Without(order, o.shut \cup {o.ret})
    /\ UNCHANGED <<maxIdlePerHost, idleTimeout, closed, mu, now, pc, frame, clientVars>>

Put(k, c) ==
    LET o == PutOutcome(conns, k, c, now) IN
    /\ CanLock(NoThread)
    /\ c \notin PoolConns(conns) \cup connClosed
    /\ conns' = o.conns
    /\ connClosed' = connClosed \cup o.shut
    /\ last' = Called("Put", k, c, o.ok, o.shut, RunAfterPut(k, c, o.shut))
    /\ order' = IF o.ok THEN Logged(Without(order, o.shut), k, c)
                ELSE Without(order, o.shut)
    /\ UNCHANGED <<maxIdlePerHost, idleTimeout, closed, mu, now, pc, frame, clientVars>>

\* mutant of CloseAll: the pool is emptied but not marked closed.
CloseAllKeepsOpen ==
    /\ CanLock(NoThread)
    /\ connClosed' = connClosed \cup PoolConns(conns)
    /\ conns' = EmptyMap
    /\ last' = Called("CloseAll", "", NilConn, TRUE, PoolConns(conns), 0)
    /\ order' = Without(order, PoolConns(conns))
    /\ UNCHANGED <<maxIdlePerHost, idleTimeout, closed, mu, now, pc, frame, clientVars>>

CloseAll ==
    /\ CanLock(NoThread)
    /\ closed' = TRUE
    /\ connClosed' = connClosed \cup PoolConns(conns)
    /\ conns' = EmptyMap
    /\ last' = Called("CloseAll", "", NilConn, TRUE, PoolConns(conns), 0)
    /\ order' = Without(order, PoolConns(conns))
    /\ UNCHANGED <<maxIdlePerHost, idleTimeout, mu, now, pc, frame, clientVars>>

\* mutant of CloseIdle: the pool is marked closed, as CloseAll does.
CloseIdleMarksClosed ==
    /\ CanLock(NoThread)
    /\ closed' = TRUE
    /\ connClosed' = connClosed \cup PoolConns(conns)
    /\ conns' = EmptyMap
    /\ last' = Called("CloseIdle", "", NilConn, TRUE, PoolConns(conns), 0)
    /\ order' = Without(order, PoolConns(conns))
    /\ UNCHANGED <<maxIdlePerHost, idleTimeout, mu, now, pc, frame, clientVars>>

CloseIdle ==
    /\ CanLock(NoThread)
    /\ connClosed' = connClosed \cup PoolConns(conns)
    /\ conns' = EmptyMap
    /\ last' = Called("CloseIdle", "", NilConn, TRUE, PoolConns(conns), 0)
    /\ order' = Without(order, PoolConns(conns))
    /\ UNCHANGED <<maxIdlePerHost, idleTimeout, closed, mu, now, pc, frame, clientVars>>

Tick ==
    /\ now < MaxTime
    /\ now' = now + 1
    /\ UNCHANGED <<poolVars, mu, connClosed, pc, frame, clientVars, last, order>>

NoFrame == [key |-> "", conn |-> NilConn, loaded |-> <<>>,
            retConn |-> NilConn, retOk |-> FALSE, cont |-> "idle"]

\* The client NewClientWithPool returns.
PooledClient == [pool |-> TRUE, DisableKeepAlive |-> FALSE]

InitPool(args) ==
    /\ \E a \in args : NewConnPool(a[1], a[2])
    /\ now = 0
    /\ connClosed = {}
    /\ dialed = 0
    /\ last = NoCall
    /\ order = [k \in Keys |-> <<>>]

InitCommon ==
    /\ InitPool(PoolArgs)
    /\ client = PooledClient
    /\ frame = [t \in Threads |-> NoFrame]

Init ==
    /\ InitCommon
    /\ pc = [t \in Threads |-> "idle"]

Next ==
    \/ \E k \in Keys : Get(k)
    \/ \E k \in Keys, c \in Conns \cup {NilConn} : Put(k, c)
    \/ CloseAll
    \/ CloseIdle
    \/ Tick

Spec == Init /\ [][Next]_vars

\* ======================================================================
\* SpecConc: goroutines sharing one pool (TestConnPool_Concurrent)
\* ======================================================================
\* Each goroutine runs Put and Get as the steps the source takes: the check
\* before the lock, p.mu.Lock(), the cleanup and the load of p.conns[key],
\* then the store and the deferred p.mu.Unlock().

ghostVars == <<last, order>>

Goto(t, label) == pc' = [pc EXCEPT ![t] = label]

\* p.mu.Lock()
GetLock(t) ==
    /\ pc[t] = "Get.lock"
    /\ CanLock(t)
    /\ mu' = t
    /\ Goto(t, "Get.cleanup")
    /\ UNCHANGED <<poolVars, now, connClosed, frame, ghostVars, clientVars>>

\* if p.closed { return nil }; p.cleanupKeyLocked(key); conns := p.conns[key]
GetCleanup(t) ==
    /\ pc[t] = "Get.cleanup"
    /\ IF closed
       THEN /\ frame' = [frame EXCEPT ![t].retConn = NilConn]
            /\ mu' = NoThread
            /\ Goto(t, frame[t].cont)
            /\ UNCHANGED <<conns, connClosed>>
       ELSE LET cleaned == cleanupKeyLocked(conns, frame[t].key, now) IN
            /\ conns' = cleaned
            /\ connClosed' = connClosed \cup ExpiredConns(Entries(conns, frame[t].key), now)
            /\ frame' = [frame EXCEPT ![t].loaded = Entries(cleaned, frame[t].key)]
            /\ Goto(t, "Get.pop")
            /\ UNCHANGED mu
    /\ UNCHANGED <<maxIdlePerHost, idleTimeout, closed, now, ghostVars, clientVars>>

\* mutant of GetPop: Get returns without the deferred p.mu.Unlock().
GetPopKeepsLock(t) ==
    /\ pc[t] = "Get.pop"
    /\ LET loaded == frame[t].loaded IN
       IF Len(loaded) = 0
       THEN /\ frame' = [frame EXCEPT ![t].retConn = NilConn, ![t].loaded = <<>>]
            /\ UNCHANGED conns
       ELSE /\ conns' = MapSet(conns, frame[t].key, GetRest(loaded))
            /\ frame' = [frame EXCEPT ![t].retConn = GetPick(loaded).conn,
                                      ![t].loaded = <<>>]
    /\ Goto(t, frame[t].cont)
    /\ UNCHANGED <<maxIdlePerHost, idleTimeout, closed, mu, now, connClosed, ghostVars, clientVars>>

\* if len(conns) == 0 { return nil }; p.conns[key] = conns[:n]; return pc.conn
GetPop(t) ==
    /\ pc[t] = "Get.pop"
    /\ LET loaded == frame[t].loaded IN
       IF Len(loaded) = 0
       THEN /\ frame' = [frame EXCEPT ![t].retConn = NilConn, ![t].loaded = <<>>]
            /\ UNCHANGED conns
       ELSE /\ conns' = MapSet(conns, frame[t].key, GetRest(loaded))
            /\ frame' = [frame EXCEPT ![t].retConn = GetPick(loaded).conn,
                                      ![t].loaded = <<>>]
    /\ mu' = NoThread
    /\ Goto(t, frame[t].cont)
    /\ UNCHANGED <<maxIdlePerHost, idleTimeout, closed, now, connClosed, ghostVars, clientVars>>

\* if conn == nil { return false }; p.mu.Lock()
PutLock(t) ==
    /\ pc[t] = "Put.lock"
    /\ IF frame[t].conn = NilConn
       THEN /\ frame' = [frame EXCEPT ![t].retOk = FALSE]
            /\ Goto(t, frame[t].cont)
            /\ UNCHANGED mu
       ELSE /\ CanLock(t)
            /\ mu' = t
            /\ Goto(t, "Put.cleanup")
            /\ UNCHANGED frame
    /\ UNCHANGED <<poolVars, now, connClosed, ghostVars, clientVars>>

\* if p.closed { return false }; p.cleanupKeyLocked(key); conns := p.conns[key]
PutCleanup(t) ==
    /\ pc[t] = "Put.cleanup"
    /\ IF closed
       THEN /\ frame' = [frame EXCEPT ![t].retOk = FALSE]
            /\ mu' = NoThread
            /\ Goto(t, frame[t].cont)
            /\ UNCHANGED <<conns, connClosed>>
       ELSE LET cleaned == cleanupKeyLocked(conns, frame[t].key, now) IN
            /\ conns' = cleaned
            /\ connClosed' = connClosed \cup ExpiredConns(Entries(conns, frame[t].key), now)
            /\ frame' = [frame EXCEPT ![t].loaded = Entries(cleaned, frame[t].key)]
            /\ Goto(t, "Put.append")
            /\ UNCHANGED mu
    /\ UNCHANGED <<maxIdlePerHost, idleTimeout, closed, now, ghostVars, clientVars>>

\* if len(conns) >= p.maxIdlePerHost { return false }; p.conns[key] = append(...)
PutAppend(t) ==
    /\ pc[t] = "Put.append"
    /\ LET loaded == frame[t].loaded IN
       IF PoolFull(loaded)
       THEN /\ frame' = [frame EXCEPT ![t].retOk = FALSE, ![t].loaded = <<>>]
            /\ UNCHANGED conns
       ELSE /\ conns' = MapSet(conns, frame[t].key, PutStore(loaded, frame[t].conn, now))
            /\ frame' = [frame EXCEPT ![t].retOk = TRUE, ![t].loaded = <<>>]
    /\ mu' = NoThread
    /\ Goto(t, frame[t].cont)
    /\ UNCHANGED <<maxIdlePerHost, idleTimeout, closed, now, connClosed, ghostVars, clientVars>>

\* The key all goroutines of the test use.
TestKey == PoolKey("https", "a.test", "443")

\* connClient, connServer := net.Pipe(); pool.Put(key, connClient)
\* Goroutine t's pipe is connection t.
TestPut(t) ==
    /\ pc[t] = "Test.start"
    /\ frame' = [frame EXCEPT ![t] = [NoFrame EXCEPT !.key = TestKey, !.conn = t,
                                                     !.cont = "Test.afterPut"]]
    /\ Goto(t, "Put.lock")
    /\ UNCHANGED <<poolVars, mu, now, connClosed, ghostVars, clientVars>>

\* if pool.Put(...) { got := pool.Get(key) ... } else { connClient.Close() }
TestAfterPut(t) ==
    /\ pc[t] = "Test.afterPut"
    /\ IF frame[t].retOk
       THEN /\ frame' = [frame EXCEPT ![t].cont = "Test.afterGet"]
            /\ Goto(t, "Get.lock")
            /\ UNCHANGED connClosed
       ELSE /\ connClosed' = connClosed \cup {frame[t].conn}
            /\ Goto(t, "Test.done")
            /\ UNCHANGED frame
    /\ UNCHANGED <<poolVars, mu, now, ghostVars, clientVars>>

\* if got := pool.Get(key); got != nil { got.Close() }
TestAfterGet(t) ==
    /\ pc[t] = "Test.afterGet"
    /\ connClosed' = connClosed \cup ({frame[t].retConn} \ {NilConn})
    /\ Goto(t, "Test.done")
    /\ UNCHANGED <<poolVars, mu, now, frame, ghostVars, clientVars>>

\* wg.Wait(); pool.CloseAll()
TestCloseAll ==
    /\ \A t \in Threads : pc[t] = "Test.done"
    /\ ~closed
    /\ CloseAll

InitConc ==
    /\ InitCommon
    /\ pc = [t \in Threads |-> "Test.start"]

NextConc ==
    \/ \E t \in Threads :
        \/ TestPut(t)
        \/ PutLock(t)
        \/ PutCleanup(t)
        \/ PutAppend(t)
        \/ TestAfterPut(t)
        \/ GetLock(t)
        \/ GetCleanup(t)
        \/ GetPop(t)
        \/ TestAfterGet(t)
    \/ TestCloseAll
    \/ Tick

SpecConc == InitConc /\ [][NextConc]_vars

\* ======================================================================
\* SpecDo: goroutines calling Client.Do on one client
\* ======================================================================
\* The client has no proxy and the requests are not CONNECT requests, so
\* every call goes through DoHTTP or DoHTTPS (DoWithProxy and DoProxy hand
\* their connection to DoConn, which closes it and never touches the pool).
\* A call is cut where it hands control to the network or to the pool: the
\* pool's Get, the Dial, and the exchange on the connection in hand together
\* with the Put or Close that follows it.  Client.Close and
\* Client.CloseIdleConnections may run between any two of these steps.

\* ---------------------------------------------------------- byte strings
\* bytes.Index / strings.Index: the 0-based offset of the first sub in s, or -1.
Index(s, sub) ==
    LET hits == {i \in 0..(Len(s) - Len(sub)) : SubSeq(s, i + 1, i + Len(sub)) = sub}
    IN  IF hits = {} THEN -1 ELSE CHOOSE i \in hits : \A j \in hits : i <= j

\* strings.Contains
Contains(s, sub) == Index(s, sub) # -1

\* strings.HasSuffix
HasSuffix(s, suffix) ==
    /\ Len(s) >= Len(suffix)
    /\ SubSeq(s, Len(s) - Len(suffix) + 1, Len(s)) = suffix

\* bytes.Split
RECURSIVE Split(_, _)
Split(s, sep) ==
    LET i == Index(s, sep)
    IN  IF i = -1 THEN <<s>>
        ELSE <<SubSeq(s, 1, i)>> \o Split(SubSeq(s, i + Len(sep) + 1, Len(s)), sep)

\* bytes.HasPrefix
HasPrefix(s, prefix) ==
    /\ Len(s) >= Len(prefix)
    /\ SubSeq(s, 1, Len(prefix)) = prefix

\* bytes.Join
RECURSIVE Join(_, _)
Join(parts, sep) ==
    IF Len(parts) = 0 THEN ""
    ELSE IF Len(parts) = 1 THEN parts[1]
    ELSE parts[1] \o sep \o Join(Tail(parts), sep)

\* bytes.ReplaceAll (old is not empty)
ReplaceAll(s, old, new) == Join(Split(s, old), new)

\* The concatenation of a sequence of byte strings.
Concat(parts) == Join(parts, "")

IsSpace(ch) == ch \in {" ", "\t", "\n", "\r", "\f"}

\* bytes.TrimSpace
RECURSIVE TrimSpace(_)
TrimSpace(s) ==
    IF Len(s) = 0 THEN s
    ELSE IF IsSpace(SubSeq(s, 1, 1)) THEN TrimSpace(SubSeq(s, 2, Len(s)))
    ELSE IF IsSpace(SubSeq(s, Len(s), Len(s))) THEN TrimSpace(SubSeq(s, 1, Len(s) - 1))
    ELSE s

UpperCase == "ABCDEFGHIJKLMNOPQRSTUVWXYZ"
LowerCase == "abcdefghijklmnopqrstuvwxyz"

LowerChar(ch) ==
    LET i == Index(UpperCase, ch)
    IN  IF i = -1 THEN ch ELSE SubSeq(LowerCase, i + 1, i + 1)

\* strings.ToLower
RECURSIVE ToLower(_)
ToLower(s) ==
    IF Len(s) = 0 THEN s
    ELSE LowerChar(SubSeq(s, 1, 1)) \o ToLower(SubSeq(s, 2, Len(s)))

CRLF == "\r\n"

\* ---------------------------------------------------------------- errors
\* An error value: whether it is nil, whether it is the io.EOF sentinel,
\* what its Timeout() answers as a net.Error, and its Error() text.
NilErr == [nil |-> TRUE, eof |-> FALSE, timeout |-> FALSE, text |-> ""]
NewError(text) == [nil |-> FALSE, eof |-> FALSE, timeout |-> FALSE, text |-> text]
IoEOF == [nil |-> FALSE, eof |-> TRUE, timeout |-> FALSE, text |-> "EOF"]
TimeoutErr == [nil |-> FALSE, eof |-> FALSE, timeout |-> TRUE,
               text |-> "read tcp: i/o timeout"]
InvalidURLError == NewError("Invalid URL")

\* The error of a Dial that fails.
DialErr == NewError("dial tcp: connect: connection refused")

\* The errors conn.Write returns in this model.
WriteErrs == {NewError("write tcp: write: broken pipe"),
              NewError("write tcp: use of closed network connection"),
              NewError("io: read/write on closed pipe")}

\* The errors conn.Read returns in this model.
ReadErrs == {TimeoutErr, IoEOF,
             NewError("read tcp: read: connection reset by peer"),
             NewError("remote error: tls: user canceled"),
             NewError("local error: tls: bad record MAC")}

\* isTimeoutError checks if the error is a network timeout error.
isTimeoutError(err) == err.timeout

\* mutant of isStaleConnError: only io.EOF counts as stale.
StaleOnlyEOF(err) == ~err.nil /\ err.eof

\* mutant of isStaleConnError: every error counts as stale.
StaleAnyError(err) == ~err.nil

\* isStaleConnError returns true if the error indicates a stale/closed connection.
isStaleConnError(err) ==
    IF err.nil THEN FALSE
    ELSE IF err.eof THEN TRUE
    ELSE \/ Contains(err.text, "broken pipe")
         \/ Contains(err.text, "connection reset")
         \/ Contains(err.text, "use of closed network connection")

\* Every error value of this model.
Errors == WriteErrs \cup ReadErrs \cup {NilErr, DialErr, InvalidURLError}

\* isStaleConnError, computed once for each error.
staleConnError == [err \in Errors |-> isStaleConnError(err)]

\* -------------------------------------------------------------- responses
\* What the server sends in one read.
Chunks == {"HTTP/1.1 200 OK\r\n\r\n",
           "HTTP/1.1 200 OK\r\nConnection: close\r\n\r\n"}

\* mutant of ConnectionHeaderCloses: any Connection header of the head with
\* the value close counts, not only the first Connection header.
RECURSIVE ConnectionHeaderAnyCloses(_, _)
ConnectionHeaderAnyCloses(lines, i) ==
    IF i > Len(lines) THEN FALSE
    ELSE LET line == lines[i]
             colonIdx == Index(line, ":")
         IN  \/ /\ colonIdx # -1
                /\ ToLower(TrimSpace(SubSeq(line, 1, colonIdx))) = "connection"
                /\ ToLower(TrimSpace(SubSeq(line, colonIdx + 2, Len(line)))) = "close"
             \/ ConnectionHeaderAnyCloses(lines, i + 1)

\* The answer of the first header line (from index i on) that is a
\* Connection header: whether its value is close; FALSE when there is none.
RECURSIVE ConnectionHeaderCloses(_, _)
ConnectionHeaderCloses(lines, i) ==
    IF i > Len(lines) THEN FALSE
    ELSE LET line == lines[i]
             colonIdx == Index(line, ":")
         IN  IF Len(line) = 0 \/ colonIdx = -1
             THEN ConnectionHeaderCloses(lines, i + 1)
             ELSE IF ToLower(TrimSpace(SubSeq(line, 1, colonIdx))) = "connection"
                  THEN ToLower(TrimSpace(SubSeq(line, colonIdx + 2, Len(line)))) = "close"
                  ELSE ConnectionHeaderCloses(lines, i + 1)

\* Response.ConnectionClose returns true if the response indicates the
\* connection should be closed.
ConnectionClose(rawdata) ==
    IF Len(rawdata) = 0 THEN TRUE
    ELSE LET headerEnd == Index(rawdata, CRLF \o CRLF)
         IN  IF headerEnd = -1 THEN TRUE
             ELSE ConnectionHeaderCloses(Split(SubSeq(rawdata, 1, headerEnd), CRLF), 2)

\* --------------------------------------------------------------- requests
\* A request: the scheme and host of its URL (which names no port), and what
\* its WantsClose() and WantsUpgrade() answer.
Req(scheme, wantsClose, wantsUpgrade) ==
    [scheme |-> scheme, host |-> "a.test",
     wantsClose |-> wantsClose, wantsUpgrade |-> wantsUpgrade]

\* The requests the callers of this model send.
Requests == {Req("http", FALSE, FALSE), Req("https", FALSE, FALSE),
             Req("http", TRUE, FALSE), Req("https", FALSE, TRUE),
             Req("ftp", FALSE, FALSE)}

\* port := req.URI.Port(); if port == "" { port = "443" } (DoHTTPS) / "80" (DoHTTP)
DefaultPort(scheme) == IF scheme = "https" THEN "443" ELSE "80"

\* The clients of this model: NewClientWithPool, one with DisableKeepAlive
\* set, and a Client literal without a pool.
Clients == {PooledClient,
            [pool |-> TRUE, DisableKeepAlive |-> TRUE],
            [pool |-> FALSE, DisableKeepAlive |-> FALSE]}

\* ------------------------------------------------------------- Client.Do
\* The locals of a Do call: the pool key, the request's answers, the
\* connection in hand and whether it came from the pool, resp.Rawdata, the
\* error in hand (the one Do returned once it has returned), and counts of
\* the Dial, Write and resp.Reset calls the Do call has made.
NoDo == [key |-> "", wantsClose |-> FALSE, wantsUpgrade |-> FALSE,
         conn |-> NilConn, pooled |-> FALSE, rawdata |-> "",
         err |-> NilErr, dials |-> 0, writes |-> 0, resets |-> 0]

\* Do returns err: what the caller is left with.
Returned(f, err) ==
    [NoDo EXCEPT !.err = err, !.rawdata = f.rawdata,
                 !.dials = f.dials, !.writes = f.writes, !.resets = f.resets]

\* mutant of UsesPool: DisableKeepAlive is not looked at.
UsesPoolDespiteKeepAliveOff == client.pool

\* obj.pool != nil && !obj.DisableKeepAlive
UsesPool == client.pool /\ ~client.DisableKeepAlive

\* Do up to the first operation on the network: url.Parse and the dispatch on
\* the scheme, then in DoHTTP/DoHTTPS the pool key and obj.pool.Get(poolKey).
DoStart(t) ==
    /\ pc[t] = "idle"
    /\ \E req \in Requests :
        IF req.scheme \notin {"http", "https"}
        THEN /\ frame' = [frame EXCEPT ![t] = Returned(NoDo, InvalidURLError)]
             /\ UNCHANGED <<pc, conns, connClosed>>
        ELSE LET key == PoolKey(req.scheme, req.host, DefaultPort(req.scheme))
                 f == [NoDo EXCEPT !.key = key, !.wantsClose = req.wantsClose,
                                   !.wantsUpgrade = req.wantsUpgrade]
                 o == IF UsesPool THEN GetOutcome(conns, key, now)
                      ELSE [conns |-> conns, ret |-> NilConn, shut |-> {}]
             IN  /\ CanLock(t)
                 /\ conns' = o.conns
                 /\ connClosed' = connClosed \cup o.shut
                 /\ IF o.ret # NilConn
                    THEN /\ frame' = [frame EXCEPT ![t] =
                                         [f EXCEPT !.conn = o.ret, !.pooled = TRUE]]
                         /\ Goto(t, "Do.exchange")
                    ELSE /\ frame' = [frame EXCEPT ![t] = f]
                         /\ Goto(t, "Do.dial")
    /\ UNCHANGED <<maxIdlePerHost, idleTimeout, closed, mu, now, clientVars, ghostVars>>

\* conn, err := obj.httpDialer().Dial("tcp", req.Addr(port)); if err != nil { return err }
DoDial(t) ==
    /\ pc[t] = "Do.dial"
    /\ LET f == [frame[t] EXCEPT !.dials = @ + 1, !.err = NilErr] IN
       \/ /\ dialed < MaxConns
          /\ dialed' = dialed + 1
          /\ frame' = [frame EXCEPT ![t] = [f EXCEPT !.conn = dialed + 1]]
          /\ Goto(t, "Do.exchange")
       \/ /\ frame' = [frame EXCEPT ![t] = Returned(f, DialErr)]
          /\ Goto(t, "idle")
          /\ UNCHANGED dialed
    /\ UNCHANGED <<poolVars, mu, now, connClosed, client, ghostVars>>

\* mutant of ReadResult: a timeout is an error in both phases.
ReadResultTimeoutFails(err, receivedData) ==
    IF isTimeoutError(err) THEN err
    ELSE IF err.eof THEN (IF receivedData THEN NilErr ELSE err)
    ELSE IF HasSuffix(err.text, "tls: user canceled") THEN NilErr
    ELSE err

\* mutant of ReadResult: a timeout ends the response in both phases.
ReadResultTimeoutEnds(err, receivedData) ==
    IF isTimeoutError(err) THEN NilErr
    ELSE IF err.eof THEN (IF receivedData THEN NilErr ELSE err)
    ELSE IF HasSuffix(err.text, "tls: user canceled") THEN NilErr
    ELSE err

\* mutant of ReadResult: EOF ends the response whether or not bytes came.
ReadResultEOFEnds(err, receivedData) ==
    IF isTimeoutError(err) THEN (IF receivedData THEN NilErr ELSE err)
    ELSE IF err.eof THEN NilErr
    ELSE IF HasSuffix(err.text, "tls: user canceled") THEN NilErr
    ELSE err

\* What doConnInternal returns when conn.Read returns no byte and err.
ReadResult(err, receivedData) ==
    IF isTimeoutError(err) THEN (IF receivedData THEN NilErr ELSE err)
    ELSE IF err.eof THEN (IF receivedData THEN NilErr ELSE err)
    ELSE IF HasSuffix(err.text, "tls: user canceled") THEN NilErr
    ELSE err

\* The read loop of doConnInternal over the results conn.Read returns one
\* after another, each the bytes it delivered and its error: the error it
\* returns and resp.Rawdata when it does.
RECURSIVE ReadLoop(_, _, _)
ReadLoop(reads, rawdata, receivedData) ==
    LET r == Head(reads)
    IN  IF Len(r.data) > 0 THEN ReadLoop(Tail(reads), rawdata \o r.data, TRUE)
        ELSE IF r.err.nil THEN ReadLoop(Tail(reads), rawdata, receivedData)
        ELSE [err |-> ReadResult(r.err, receivedData), rawdata |-> rawdata]

\* doConnInternal on a connection whose Write returns io.write and whose
\* Reads return io.reads.
doConnInternal(io, rawdata) ==
    IF ~io.write.nil THEN [err |-> io.write, rawdata |-> rawdata]
    ELSE ReadLoop(io.reads, rawdata, FALSE)

\* The sequences of at most n reads that deliver a chunk each.
RECURSIVE ChunkReads(_)
ChunkReads(n) ==
    IF n = 0 THEN {<<>>}
    ELSE LET shorter == ChunkReads(n - 1)
         IN  shorter \cup {Append(s, [data |-> c, err |-> NilErr]) :
                               s \in shorter, c \in Chunks}

\* What a connection does during one exchange: the Write fails, or it
\* succeeds and the Reads deliver at most MaxChunks chunks and then fail.
Exchanges ==
    {[write |-> e, reads |-> <<>>] : e \in WriteErrs}
    \cup {[write |-> NilErr, reads |-> Append(s, [data |-> "", err |-> e])] :
             s \in ChunkReads(MaxChunks), e \in ReadErrs}

\* doConnInternal on a fresh or reset response, computed once for each
\* exchange.
exchangeResult == [io \in Exchanges |-> doConnInternal(io, "")]

\* The values resp.Rawdata takes.
Rawdatas == {exchangeResult[io].rawdata : io \in Exchanges}

\* What one Read of an exchange of SpecCall delivers: the first byte of a
\* response, or the rest of its head.
Segments == {"H", "TTP/1.1 200 OK\r\n\r\n"}

\* The sequences of at most n segments.
RECURSIVE SegmentSeqs(_)
SegmentSeqs(n) ==
    IF n = 0 THEN {<<>>}
    ELSE LET shorter == SegmentSeqs(n - 1)
         IN  shorter \cup {Append(s, c) : s \in shorter, c \in Segments}

\* The values resp.Rawdata takes in an exchange through the pool.
CallRawdatas == {Concat(s) : s \in SegmentSeqs(MaxReads)}

\* The sequences of at most n chunks.
RECURSIVE ChunkSeqs(_)
ChunkSeqs(n) ==
    IF n = 0 THEN {<<>>}
    ELSE LET shorter == ChunkSeqs(n - 1)
         IN  shorter \cup {Append(s, c) : s \in shorter, c \in Chunks}

\* The values resp.Rawdata takes in an exchange of SpecNet.
NetRawdatas == {Concat(s) : s \in ChunkSeqs(MaxReads)}

\* resp.ConnectionClose(), computed once for each response.
connectionClose ==
    [rawdata \in Rawdatas \cup CallRawdatas \cup NetRawdatas |-> ConnectionClose(rawdata)]

\* mutant of canReuse: the request's Upgrade is not looked at.
CanReuseDespiteUpgrade(f, err) ==
    /\ err.nil
    /\ client.pool
    /\ ~client.DisableKeepAlive
    /\ ~f.wantsClose
    /\ ~connectionClose[f.rawdata]

\* canReuse in doConnWithPool
canReuse(f, err) ==
    /\ err.nil
    /\ client.pool
    /\ ~client.DisableKeepAlive
    /\ ~f.wantsClose
    /\ ~f.wantsUpgrade
    /\ ~connectionClose[f.rawdata]

\* doConnInternal has returned err to doConnWithPool: the connection goes to
\* the pool or is closed, and DoHTTP/DoHTTPS returns err or, for a stale
\* error on a pooled connection, closes, resets the response and goes on to
\* dial.
AfterExchange(t, f, err) ==
    LET o == IF canReuse(f, err) THEN PutOutcome(conns, f.key, f.conn, now)
             ELSE [conns |-> conns, ok |-> FALSE, shut |-> {}]
    IN  /\ CanLock(t)
        /\ conns' = o.conns
        /\ connClosed' = connClosed \cup o.shut \cup (IF o.ok THEN {} ELSE {f.conn})
        /\ IF f.pooled /\ ~err.nil /\ staleConnError[err]
           THEN /\ frame' = [frame EXCEPT ![t] =
                                [f EXCEPT !.conn = NilConn, !.pooled = FALSE,
                                          !.rawdata = "", !.err = err,
                                          !.resets = @ + 1]]
                /\ Goto(t, "Do.dial")
           ELSE /\ frame' = [frame EXCEPT ![t] = Returned(f, err)]
                /\ Goto(t, "idle")

\* doConnWithPool(conn, req, resp, poolKey): the exchange on the connection
\* in hand, which nothing else touches meanwhile, and what follows it.
DoExchange(t) ==
    /\ pc[t] = "Do.exchange"
    /\ \E io \in Exchanges :
        LET r == IF frame[t].rawdata = "" THEN exchangeResult[io]
                 ELSE doConnInternal(io, frame[t].rawdata)
            f == [frame[t] EXCEPT !.writes = @ + 1, !.rawdata = r.rawdata]
        IN  AfterExchange(t, f, r.err)
    /\ UNCHANGED <<maxIdlePerHost, idleTimeout, closed, mu, now, clientVars, ghostVars>>

\* mutant of ClientClose: the connections checked out are closed as well.
ClientCloseClosesCheckedOut ==
    /\ client.pool
    /\ CanLock(NoThread)
    /\ ~closed
    /\ closed' = TRUE
    /\ connClosed' = connClosed \cup PoolConns(conns)
                         \cup ({frame[t].conn : t \in Threads} \ {NilConn})
    /\ conns' = EmptyMap
    /\ UNCHANGED <<maxIdlePerHost, idleTimeout, mu, now, pc, frame, clientVars, ghostVars>>

\* Client.Close: obj.pool.CloseAll()
ClientClose ==
    /\ client.pool
    /\ CanLock(NoThread)
    /\ ~closed
    /\ closed' = TRUE
    /\ connClosed' = connClosed \cup PoolConns(conns)
    /\ conns' = EmptyMap
    /\ UNCHANGED <<maxIdlePerHost, idleTimeout, mu, now, pc, frame, clientVars, ghostVars>>

\* Client.CloseIdleConnections: obj.pool.CloseIdle()
CloseIdleConnections ==
    /\ client.pool
    /\ CanLock(NoThread)
    /\ PoolLen > 0
    /\ connClosed' = connClosed \cup PoolConns(conns)
    /\ conns' = EmptyMap
    /\ UNCHANGED <<maxIdlePerHost, idleTimeout, closed, mu, now, pc, frame,
                   clientVars, ghostVars>>

\* The pools of the clients: a pool of capacity one per host and the one
\* NewDefaultConnPool returns.
ClientPoolArgs == {<<1, 2>>, <<DefaultMaxIdleConnsPerHost, DefaultIdleTimeout>>}

InitDo ==
    /\ InitPool(ClientPoolArgs)
    /\ client \in Clients
    /\ frame = [t \in Threads |-> NoDo]
    /\ pc = [t \in Threads |-> "idle"]

NextDo ==
    \/ \E t \in Threads :
        \/ DoStart(t)
        \/ DoDial(t)
        \/ DoExchange(t)
    \/ ClientClose
    \/ CloseIdleConnections

SpecDo == InitDo /\ [][NextDo]_vars

\* ======================================================================
\* SpecHttp: goroutines in DoHTTP, cut at the pool's mutex and at the network
\* ======================================================================
\* Each goroutine calls DoHTTP (or DoHTTPS) in a loop on a client with a
\* pool.  The pool's Get and Put run as the steps of SpecConc, around
\* p.mu.Lock() and p.mu.Unlock(); the Dial and the exchange on the
\* connection (doConnInternal: the Write and the Reads) are steps that block,
\* during which the other goroutines run and the clock advances.
\* Client.Close and Client.CloseIdleConnections run whenever the mutex is
\* free.

\* The locals of a goroutine in DoHTTP, with those of the pool call it is in.
NoHttp == [key |-> "", conn |-> NilConn, loaded |-> <<>>,
           retConn |-> NilConn, retOk |-> FALSE, cont |-> "Http.start",
           pooled |-> FALSE]

\* How doConnInternal can end for doConnWithPool and DoHTTP: canReuse holds,
\* or it does not and the error is not a stale one, or the error is a stale
\* one.
ExchangeEnds == {"reuse", "close", "stale"}

\* poolKey := PoolKey(...); conn = obj.pool.Get(poolKey)
HttpGet(t) ==
    /\ pc[t] = "Http.start"
    /\ frame' = [frame EXCEPT ![t] = [NoHttp EXCEPT !.key = TestKey,
                                                    !.cont = "Http.afterGet"]]
    /\ Goto(t, "Get.lock")
    /\ UNCHANGED <<poolVars, mu, now, connClosed, ghostVars, clientVars>>

\* if conn != nil { pooled = true; err = obj.doConnWithPool(...) }
HttpAfterGet(t) ==
    /\ pc[t] = "Http.afterGet"
    /\ IF frame[t].retConn # NilConn
       THEN /\ frame' = [frame EXCEPT ![t].conn = frame[t].retConn,
                                      ![t].pooled = TRUE]
            /\ Goto(t, "Http.exchange")
       ELSE /\ Goto(t, "Http.dial")
            /\ UNCHANGED frame
    /\ UNCHANGED <<poolVars, mu, now, connClosed, ghostVars, clientVars>>

\* conn, err := obj.httpDialer().Dial(...), with the TLS handshake in
\* DoHTTPS; if err != nil { return err }
HttpDial(t) ==
    /\ pc[t] = "Http.dial"
    /\ \/ /\ dialed < MaxConns
          /\ dialed' = dialed + 1
          /\ frame' = [frame EXCEPT ![t].conn = dialed + 1, ![t].pooled = FALSE]
          /\ Goto(t, "Http.exchange")
       \/ /\ frame' = [frame EXCEPT ![t] = NoHttp]
          /\ Goto(t, "Http.start")
          /\ UNCHANGED dialed
    /\ UNCHANGED <<poolVars, mu, now, connClosed, client, ghostVars>>

\* doConnInternal has written and read; doConnWithPool goes on to
\* obj.pool.Put or closes the connection, and DoHTTP retries after a stale
\* error on a pooled connection.
HttpExchange(t) ==
    /\ pc[t] = "Http.exchange"
    /\ \E end \in ExchangeEnds :
        CASE end = "reuse" ->
                /\ frame' = [frame EXCEPT ![t].cont = "Http.afterPut"]
                /\ Goto(t, "Put.lock")
                /\ UNCHANGED connClosed
          [] end = "close" ->
                /\ connClosed' = connClosed \cup {frame[t].conn}
                /\ frame' = [frame EXCEPT ![t] = NoHttp]
                /\ Goto(t, "Http.start")
          [] end = "stale" ->
                /\ frame[t].pooled
                /\ connClosed' = connClosed \cup {frame[t].conn}
                /\ frame' = [frame EXCEPT ![t].conn = NilConn, ![t].pooled = FALSE]
                /\ Goto(t, "Http.dial")
    /\ UNCHANGED <<poolVars, mu, now, clientVars, ghostVars>>

\* mutant of HttpAfterPut: the connection is closed whatever Put returned.
HttpAfterPutCloses(t) ==
    /\ pc[t] = "Http.afterPut"
    /\ connClosed' = connClosed \cup {frame[t].conn}
    /\ frame' = [frame EXCEPT ![t] = NoHttp]
    /\ Goto(t, "Http.start")
    /\ UNCHANGED <<poolVars, mu, now, clientVars, ghostVars>>

\* if obj.pool.Put(key, conn) { return err }; conn.Close()
HttpAfterPut(t) ==
    /\ pc[t] = "Http.afterPut"
    /\ connClosed' = IF frame[t].retOk THEN connClosed
                     ELSE connClosed \cup {frame[t].conn}
    /\ frame' = [frame EXCEPT ![t] = NoHttp]
    /\ Goto(t, "Http.start")
    /\ UNCHANGED <<poolVars, mu, now, clientVars, ghostVars>>

\* The clock advances while a goroutine is blocked in a Dial or in an
\* exchange; the steps on the pool take no time.
HttpWait ==
    /\ \E t \in Threads : pc[t] \in {"Http.dial", "Http.exchange"}
    /\ Tick

\* The pool of the client: one idle connection per host, kept two ticks.
HttpPoolArgs == {<<1, 2>>}

InitHttp ==
    /\ InitPool(HttpPoolArgs)
    /\ client = PooledClient
    /\ frame = [t \in Threads |-> NoHttp]
    /\ pc = [t \in Threads |-> "Http.start"]

NextHttp ==
    \/ \E t \in Threads :
        \/ HttpGet(t)
        \/ GetLock(t)
        \/ GetCleanup(t)
        \/ GetPop(t)
        \/ HttpAfterGet(t)
        \/ HttpDial(t)
        \/ HttpExchange(t)
        \/ PutLock(t)
        \/ PutCleanup(t)
        \/ PutAppend(t)
        \/ HttpAfterPut(t)
    \/ ClientClose
    \/ CloseIdleConnections
    \/ HttpWait

SpecHttp == InitHttp /\ [][NextHttp]_vars

\* ======================================================================
\* SpecCall: one goroutine calling Client.Do, step by step
\* ======================================================================
\* One caller sends requests one after another through one client, which
\* may have a proxy URI.  Every operation of a call on the network or on the
\* pool is a step of its own: the pool's Get, each Dial, each Write, each
\* Read (whose bytes and error are the locals n and err of the read loop),
\* and the Put or Close that ends an exchange.  The clock may advance while
\* a Read is pending, and a Read whose deadline has passed returns a timeout
\* error.  The URL and the bytes of a request are strings, parsed as the
\* code parses them.  TLS is transparent: the bytes read and written are
\* those of the HTTP exchange.

\* The goroutine that calls Do.
Caller == 1

\* Client.Timeout of every client, in clock ticks.
Timeout == 2
\* DefaultQuietTimeout, in clock ticks.
DefaultQuietTimeout == 1

\* ------------------------------------------------------------------- URLs
\* net/url getscheme from the i-th byte of rawURL on: the scheme, or none
\* when rawURL does not start with one, or an error for a leading colon.
RECURSIVE getscheme(_, _)
getscheme(rawURL, i) ==
    LET none == [scheme |-> "", rest |-> rawURL, err |-> NilErr]
        c == SubSeq(rawURL, i, i)
    IN  IF i > Len(rawURL) THEN none
        ELSE IF Contains(LowerCase \o UpperCase, c) THEN getscheme(rawURL, i + 1)
        ELSE IF Contains("0123456789+-.", c)
             THEN (IF i = 1 THEN none ELSE getscheme(rawURL, i + 1))
        ELSE IF c = ":"
             THEN (IF i = 1
                   THEN [scheme |-> "", rest |-> "",
                         err |-> NewError("parse: missing protocol scheme")]
                   ELSE [scheme |-> SubSeq(rawURL, 1, i - 1),
                         rest |-> SubSeq(rawURL, i + 1, Len(rawURL)), err |-> NilErr])
        ELSE none

\* url.Parse for URLs without user, port, query or fragment: the error, the
\* scheme in lower case, and the host and the path of a "//host/path"
\* remainder.
urlParse(rawURL) ==
    LET s == getscheme(rawURL, 1)
        authority == IF HasPrefix(s.rest, "//")
                     THEN Split(SubSeq(s.rest, 3, Len(s.rest)), "/")[1]
                     ELSE ""
        path == IF HasPrefix(s.rest, "//")
                THEN SubSeq(s.rest, 3 + Len(authority), Len(s.rest))
                ELSE s.rest
    IN  [err |-> s.err, Scheme |-> ToLower(s.scheme), Host |-> authority,
         Path |-> path]

\* mutant of IsAbs: every URL counts as absolute.
IsAbsAlways(uri) == TRUE

\* URL.IsAbs reports whether the URL is absolute.
IsAbs(uri) == uri.Scheme # ""

\* The URLs of the requests: two origins the pool knows, a scheme the client
\* does not speak, a relative URL and one that does not parse.
URLs == {"http://a.test/", "HTTPS://a.test/", "ftp://a.test/f", "/path/only", ":80/x"}

\* url.Parse, computed once for each URL.
parsedURL == [u \in URLs |-> urlParse(u)]

\* --------------------------------------------------------------- requests
\* fmt.Sprintf("%d", n) for n >= 0
RECURSIVE Itoa(_)
Itoa(n) ==
    LET digit == SubSeq("0123456789", (n % 10) + 1, (n % 10) + 1)
    IN  IF n < 10 THEN digit ELSE Itoa(n \div 10) \o digit

\* prepareBytes: every line ending becomes CRLF.
prepareBytes(data) == ReplaceAll(ReplaceAll(data, CRLF, "\n"), "\n", CRLF)

\* trimSpaces: the pieces trimmed, without those that are empty then.
RECURSIVE trimSpaces(_)
trimSpaces(sl) ==
    IF Len(sl) = 0 THEN <<>>
    ELSE LET v1 == TrimSpace(Head(sl))
         IN  (IF Len(v1) = 0 THEN <<>> ELSE <<v1>>) \o trimSpaces(Tail(sl))

\* HeaderLine{Key, Value, Pos}
HeaderLine(k, v, pos) == [Key |-> k, Value |-> v, Pos |-> pos]

\* make(map[string]HeaderLine)
NoHeaders == [k \in {} |-> HeaderLine("", "", 0)]

\* &Request{Rawdata: rawdata, URL: rawURL}, with URI as Do sets it.
Request(rawdata, rawURL) ==
    [Rawdata |-> rawdata, URL |-> rawURL, URI |-> urlParse(rawURL),
     parsed |-> FALSE, httpLine |-> "", method |-> "", path |-> "",
     version |-> "", rawHeaders |-> "", body |-> "", headers |-> NoHeaders]

\* The loop of ParseRawdata over the header lines, from the i-th (0-based)
\* on: each line goes into the map under its name in lower case, or under
\* "<name>_<i>" when the map has that name already.
RECURSIVE ParseHeaders(_, _, _)
ParseHeaders(lines, i, headers) ==
    IF i >= Len(lines) THEN headers
    ELSE LET linePieces == Split(lines[i + 1], ":")
             k == linePieces[1]
             v == IF Len(linePieces) > 1
                  THEN TrimSpace(Join(Tail(linePieces), ":"))
                  ELSE ""
             lower == ToLower(k)
             key == IF lower \in DOMAIN headers
                    THEN lower \o "_" \o Itoa(i) ELSE lower
         IN  ParseHeaders(lines, i + 1, MapSet(headers, key, HeaderLine(k, v, i)))

\* Request.ParseRawdata: the request it leaves and the error it returns.
ParseRawdata(req) ==
    IF req.parsed THEN [req |-> req, err |-> NilErr]
    ELSE LET rawdata == IF ~Contains(req.Rawdata, CRLF)
                        THEN prepareBytes(req.Rawdata) ELSE req.Rawdata
             pieces == Split(rawdata, CRLF \o CRLF)
             headers == Split(pieces[1], CRLF)
             body == IF Len(pieces) > 1 THEN Join(Tail(pieces), CRLF \o CRLF)
                     ELSE req.body
             hlinePieces == trimSpaces(Split(headers[1], " "))
             r == [req EXCEPT !.Rawdata = rawdata, !.body = body,
                              !.httpLine = headers[1]]
         IN  IF Len(hlinePieces) # 3
             THEN [req |-> r, err |-> NewError("invalid HTTP line: " \o headers[1])]
             ELSE [req |-> [r EXCEPT !.method = hlinePieces[1],
                                     !.path = hlinePieces[2],
                                     !.version = hlinePieces[3],
                                     !.rawHeaders = Join(Tail(headers), CRLF),
                                     !.headers = ParseHeaders(Tail(headers), 0, NoHeaders),
                                     !.parsed = TRUE],
                   err |-> NilErr]

\* headerSlice[v.Pos] = "Key: Value" for every entry of the map, in a slice
\* of len(obj.headers) elements: the element at index i (0-based), empty
\* when no entry has that Pos.
HeaderAt(headers, i) ==
    LET at == {k \in DOMAIN headers : headers[k].Pos = i}
    IN  IF at = {} THEN ""
        ELSE LET v == headers[CHOOSE k \in at : TRUE]
             IN  v.Key \o ": " \o v.Value

\* Request.Bytes: the bytes it returns, or the panic of an index out of
\* range when an entry's Pos is not below the number of entries.
Bytes(req) ==
    LET n == Cardinality(DOMAIN req.headers)
        headerSlice == [i \in 1..n |-> HeaderAt(req.headers, i - 1)]
    IN  IF \E k \in DOMAIN req.headers : req.headers[k].Pos >= n
        THEN [panic |-> TRUE, bytes |-> ""]
        ELSE [panic |-> FALSE,
              bytes |-> req.method \o " " \o req.path \o " " \o req.version \o CRLF
                        \o Join(headerSlice, CRLF) \o CRLF \o CRLF \o req.body]

\* req.FullPath(), for URLs without query and fragment.
FullPath(req) == IF req.URI.Path = "" THEN "/" ELSE req.URI.Path

\* prepareBytesVariables: the ||...|| variables of data, expanded in the
\* order of the source; ||CLEN|| is len(req.body) at the time of the call.
prepareBytesVariables(data, req) ==
    LET path == IF req.URI.Path = "" THEN "/" ELSE req.URI.Path
        d1 == ReplaceAll(data, "||CR||", "\r")
        d2 == ReplaceAll(d1, "||LF||", "\n")
        d3 == ReplaceAll(d2, "||ABSURL||", req.URL)
        d4 == ReplaceAll(d3, "||HOST||", req.URI.Host)
        d5 == ReplaceAll(d4, "||PATH||", path)
        d6 == ReplaceAll(d5, "||ESCAPEDPATH||", req.URI.Path)
        d7 == ReplaceAll(d6, "||FULLPATH||", FullPath(req))
    IN  ReplaceAll(d7, "||CLEN||", Itoa(Len(req.body)))

\* The loops of PrepareRequest: prepareBytes on the request line's three
\* fields and on the key and value of every header.
PrepareLineAndHeaders(req) ==
    LET h == req.headers
    IN  [req EXCEPT !.method = prepareBytes(@), !.path = prepareBytes(@),
                    !.version = prepareBytes(@),
                    !.headers = [k \in DOMAIN h |->
                                    HeaderLine(prepareBytes(h[k].Key),
                                               prepareBytes(h[k].Value), h[k].Pos)]]

\* The loops of PrepareRequestVariables: the variables in the request
\* line's three fields and in the key and value of every header, expanded
\* with the values of the request from.
ExpandLineAndHeaders(req, from) ==
    LET h == req.headers
    IN  [req EXCEPT !.method = prepareBytesVariables(@, from),
                    !.path = prepareBytesVariables(@, from),
                    !.version = prepareBytesVariables(@, from),
                    !.headers = [k \in DOMAIN h |->
                                    HeaderLine(prepareBytesVariables(h[k].Key, from),
                                               prepareBytesVariables(h[k].Value, from),
                                               h[k].Pos)]]

\* req.body[:idx] for the first ||END||, when there is one.
TruncateAtEnd(body) ==
    LET idx == Index(body, "||END||")
    IN  IF idx = -1 THEN body ELSE SubSeq(body, 1, idx)

\* mutant of PrepareRequestVariables: the headers are expanded before the
\* body is.
PrepareRequestVariablesHeadersFirst(req) ==
    LET r == ExpandLineAndHeaders(req, req)
    IN  [r EXCEPT !.body = TruncateAtEnd(prepareBytesVariables(@, req))]

\* PrepareRequestVariables: body first for CLEN, then the request line and
\* the headers.
PrepareRequestVariables(req) ==
    LET r == [req EXCEPT !.body = TruncateAtEnd(prepareBytesVariables(@, req))]
    IN  ExpandLineAndHeaders(r, r)

\* PrepareRequest: the line endings of every field become CRLF, then
\* PrepareRequestVariables.
PrepareRequest(req) ==
    PrepareRequestVariables(
        [PrepareLineAndHeaders(req) EXCEPT !.body = prepareBytes(@)])

\* The bytes of the requests and what WantsClose() and WantsUpgrade() answer
\* for them: a plain request, one with Connection: close, one with
\* Connection: upgrade, CONNECT requests followed by an inner request,
\* without the blank line, and with bare LF line endings, and a request
\* whose first line has two pieces.
RawRequests ==
    {[rawdata |-> "GET / HTTP/1.1\r\n\r\n", wantsClose |-> FALSE, wantsUpgrade |-> FALSE],
     [rawdata |-> "GET / HTTP/1.1\r\nConnection: close\r\n\r\n",
      wantsClose |-> TRUE, wantsUpgrade |-> FALSE],
     [rawdata |-> "GET / HTTP/1.1\r\nConnection: upgrade\r\n\r\n",
      wantsClose |-> FALSE, wantsUpgrade |-> TRUE],
     [rawdata |-> "CONNECT a.test:80 HTTP/1.1\r\n\r\nGET / HTTP/1.1\r\n\r\n",
      wantsClose |-> FALSE, wantsUpgrade |-> FALSE],
     [rawdata |-> "CONNECT a.test:80 HTTP/1.1\r\n",
      wantsClose |-> FALSE, wantsUpgrade |-> FALSE],
     [rawdata |-> "CONNECT a.test:80 HTTP/1.1\n\nGET / HTTP/1.1\n\n",
      wantsClose |-> FALSE, wantsUpgrade |-> FALSE],
     [rawdata |-> "GET /\r\n\r\n", wantsClose |-> FALSE, wantsUpgrade |-> FALSE]}

\* req.Rawdata after req.ParseRawdata() and obj.TransformRequestFunc(req) in
\* Do, computed once for each request: ParseRawdata gives a request without
\* any CRLF its line endings, the transform leaves Rawdata alone.
preparedRawdata ==
    [r \in RawRequests |->
        PrepareRequest(ParseRawdata(Request(r.rawdata, "http://a.test/")).req).Rawdata]

\* mutant of rawdataParts: the split always yields a second part.
RawdataPartsPadded ==
    [r \in RawRequests |-> Append(Split(preparedRawdata[r], CRLF \o CRLF), "")]

\* bytes.Split(req.Rawdata, []byte("\r\n\r\n")) in DoProxy, computed once for
\* each request.
rawdataParts == [r \in RawRequests |-> Split(preparedRawdata[r], CRLF \o CRLF)]

\* req.Bytes() as doConnInternal writes it, computed once for each request.
requestBytes ==
    [r \in RawRequests |->
        Bytes(PrepareRequest(ParseRawdata(Request(r.rawdata, "http://a.test/")).req)).bytes]

\* What req.ParseRawdata() returns in Do, computed once for each request; Do
\* does not look at it.
parseError ==
    [r \in RawRequests |-> ParseRawdata(Request(r.rawdata, "http://a.test/")).err]

\* bytes.HasPrefix(req.Rawdata, []byte("CONNECT ")) in Do, computed once for
\* each request.
hasConnectPrefix == [r \in RawRequests |-> HasPrefix(preparedRawdata[r], "CONNECT ")]

InvalidRequestError == NewError("Invalid Request")

\* ---------------------------------------------------------------- clients
\* A client of SpecCall: whether it has a pool, DisableKeepAlive, the
\* scheme of the proxy URI SetProxy was given ("" when it was not called),
\* and QuietTimeout in clock ticks.
CallClient(pool, proxyScheme, quiet) ==
    [pool |-> pool, DisableKeepAlive |-> FALSE, proxyURI |-> proxyScheme,
     QuietTimeout |-> quiet]

\* The clients and their pools: NewClientWithPool on a pool of capacity one
\* and NewDefaultClient, a Client literal without a pool and without a
\* QuietTimeout, and NewDefaultClient after SetProxy with an http proxy and
\* with QuietTimeout set to Timeout.
CallSetups ==
    {[client |-> CallClient(TRUE, "", DefaultQuietTimeout), args |-> a] :
        a \in ClientPoolArgs}
    \cup {[client |-> CallClient(FALSE, "", 0),
           args |-> <<DefaultMaxIdleConnsPerHost, DefaultIdleTimeout>>],
          [client |-> CallClient(TRUE, "http", Timeout),
           args |-> <<DefaultMaxIdleConnsPerHost, DefaultIdleTimeout>>]}

\* ------------------------------------------------------------ the network
\* What the first Read after a CONNECT delivers: the proxy's answer, alone
\* or with the first byte of what follows in the same segment.
ProxySegments ==
    {"HTTP/1.1 200 OK\r\n\r\n",
     "HTTP/1.1 200 OK\r\n\r\nH",
     "HTTP/1.1 403 Forbidden\r\n\r\n",
     "HTTP/1.1 403 Forbidden\r\nContent-Length: 200\r\n\r\n"}

\* http.ReadResponse on a segment that holds a whole response head: the
\* status code of the status line ("HTTP/1.1 200 OK" gives "200") and the
\* bytes its bufio.Reader has read past the head.
ReadResponse(seg) ==
    LET headEnd == Index(seg, CRLF \o CRLF)
        statusLine == Split(seg, CRLF)[1]
        afterProto == SubSeq(statusLine, Index(statusLine, " ") + 2, Len(statusLine))
    IN  [StatusCode |-> Split(afterProto, " ")[1],
         buffered |-> SubSeq(seg, headEnd + 5, Len(seg))]

\* http.ReadResponse, computed once for each segment.
proxyResponse == [seg \in ProxySegments |-> ReadResponse(seg)]

\* !bytes.Contains(buf, []byte("200")) in DoProxy, computed once for each
\* segment.
contains200 == [seg \in ProxySegments |-> Contains(seg, "200")]

\* fmt.Errorf("can not connect to proxy. resp: %q", buf[:n])
TunnelError(resp) == NewError("can not connect to proxy. resp: " \o resp)

\* fmt.Errorf("Connect server using proxy error, StatusCode [%d]", resp.StatusCode)
ProxyStatusError(code) ==
    NewError("Connect server using proxy error, StatusCode [" \o code \o "]")

\* ------------------------------------------------------------- Client.Do
\* The locals of the call in progress: the request (req.URL, until the
\* first Get or Dial; the request as submitted, until Do has dispatched on
\* it; req.Rawdata; the parts DoProxy splits it into), the pool key, which of DoHTTP/DoHTTPS
\* ("http"), DoProxy ("tunnel") and DoWithProxy ("proxy") runs, the
\* connection in hand and whether it came from the pool, resp.Rawdata, the
\* locals of doConnInternal (writeTime, receivedData, the two deadlines, the
\* bytes and the error of the last Read), the error in hand (the one Do returned once
\* it has returned), what the handshake's bufio.Reader holds, and the
\* caller's records: the segments the Reads of the exchange delivered, the
\* number of them, and counts
\* of the calls of Get, Put, Dial, of the Writes of a CONNECT, of the Writes
\* of doConnInternal and of resp.Reset.
NoExchange ==
    [url |-> "", req |-> <<>>, reqRawdata |-> "", reqBytes |-> "", parts |-> <<>>,
     key |-> "", path |-> "", conn |-> NilConn, pooled |-> FALSE,
     wantsClose |-> FALSE, wantsUpgrade |-> FALSE, written |-> <<>>,
     rawdata |-> "", TimeToFirstByte |-> 0, TimeToLastByte |-> 0,
     receivedData |-> FALSE,
     writeTime |-> 0, absoluteDeadline |-> 0, readDeadline |-> 0, n |-> "", readErr |-> NilErr,
     err |-> NilErr, buffered |-> "", arrived |-> <<>>, reads |-> 0,
     gets |-> 0, puts |-> 0, dials |-> 0, prefaces |-> 0, writes |-> 0, resets |-> 0]

\* The locals of the caller's call.
call == frame[Caller]

\* The caller's locals become f and the caller goes on at position p.
Step(f, p) ==
    /\ frame' = [frame EXCEPT ![Caller] = f]
    /\ pc' = [pc EXCEPT ![Caller] = p]

\* Do returns err: the caller is left with the error and its counts, with
\* the request when Do returned without dispatching on it, and with the
\* bytes of the last Read.
Return(f, err) ==
    Step([NoExchange EXCEPT !.err = err, !.url = f.url, !.req = f.req,
                            !.n = f.n,
                            !.gets = f.gets, !.puts = f.puts,
                            !.dials = f.dials, !.prefaces = f.prefaces,
                            !.writes = f.writes, !.resets = f.resets],
         "returned")

\* The caller has looked at what Do returned.
Returns ==
    /\ pc[Caller] = "returned"
    /\ Step(NoExchange, "idle")
    /\ UNCHANGED <<poolVars, mu, now, connClosed, clientVars, ghostVars>>

\* The caller fills in a Request and a fresh Response.
NewRequest ==
    /\ pc[Caller] = "idle"
    /\ now <= MaxTime
    /\ \E u \in URLs, r \in RawRequests :
        Step([NoExchange EXCEPT !.url = u, !.req = r, !.reqRawdata = r.rawdata,
                                !.wantsClose = r.wantsClose,
                                !.wantsUpgrade = r.wantsUpgrade],
             "Do")
    /\ UNCHANGED <<poolVars, mu, now, connClosed, clientVars, ghostVars>>

\* Do: url.Parse, IsAbs, TransformRequestFunc, and the dispatch to DoProxy
\* (up to its split of the request), DoWithProxy (up to ProxyFromURL),
\* DoHTTPS or DoHTTP (up to the pool key).
Do ==
    /\ pc[Caller] = "Do"
    /\ LET uri == parsedURL[call.url]
           f == [call EXCEPT !.req = <<>>,
                             !.reqRawdata = preparedRawdata[call.req],
                             !.reqBytes = requestBytes[call.req]]
           parts == rawdataParts[call.req]
       IN  IF ~uri.err.nil THEN Return(call, uri.err)
           ELSE IF ~IsAbs(uri) THEN Return(call, InvalidURLError)
           ELSE IF hasConnectPrefix[call.req]
           THEN IF Len(parts) < 2 THEN Return(call, InvalidRequestError)
                ELSE Step([f EXCEPT !.path = "tunnel", !.parts = parts,
                                    !.reqRawdata = parts[1] \o CRLF \o CRLF],
                          "DoProxy.dial")
           ELSE IF client.proxyURI # ""
           THEN Step([f EXCEPT !.path = "proxy"], "httpProxy.dial")
           ELSE IF uri.Scheme \in {"https", "http"}
           THEN Step([f EXCEPT !.path = "http",
                               !.key = PoolKey(uri.Scheme, uri.Host,
                                               DefaultPort(uri.Scheme))],
                     IF UsesPool THEN "Get" ELSE "Dial")
           ELSE Return(call, InvalidURLError)
    /\ UNCHANGED <<poolVars, mu, now, connClosed, clientVars, ghostVars>>

\* if conn := obj.pool.Get(poolKey); conn != nil
PoolGet ==
    /\ pc[Caller] = "Get"
    /\ CanLock(Caller)
    /\ LET o == GetOutcome(conns, call.key, now)
           f == [call EXCEPT !.gets = @ + 1, !.url = ""]
       IN  /\ conns' = o.conns
           /\ connClosed' = connClosed \cup o.shut
           /\ IF o.ret # NilConn
              THEN Step([f EXCEPT !.conn = o.ret, !.pooled = TRUE], "Write")
              ELSE Step(f, "Dial")
    /\ UNCHANGED <<maxIdlePerHost, idleTimeout, closed, mu, now, clientVars, ghostVars>>

\* A Dial of the network: it creates a connection, or fails and Do returns
\* the error.  In DoHTTP/DoHTTPS the exchange follows, in DoProxy the Write
\* of the CONNECT request, in httpProxy.Dial (whose forward dialer this is)
\* the Write of the CONNECT request it builds.
Dial ==
    /\ pc[Caller] \in {"Dial", "DoProxy.dial", "httpProxy.dial"}
    /\ LET f == [call EXCEPT !.dials = @ + 1, !.err = NilErr, !.url = ""] IN
       \/ /\ dialed < MaxDials
          /\ dialed' = dialed + 1
          /\ Step([f EXCEPT !.conn = dialed + 1],
                  CASE pc[Caller] = "Dial" -> "Write"
                    [] pc[Caller] = "DoProxy.dial" -> "DoProxy.write"
                    [] pc[Caller] = "httpProxy.dial" -> "httpProxy.write")
       \/ /\ Return(f, DialErr)
          /\ UNCHANGED dialed
    /\ UNCHANGED <<poolVars, mu, now, connClosed, client, ghostVars>>

\* DoProxy: conn.Write(req.Rawdata), the CONNECT request the caller wrote.
\* httpProxy.Dial: req.Write(c), the CONNECT request it built; on an error
\* it closes the connection.
ConnectWrite ==
    /\ pc[Caller] \in {"DoProxy.write", "httpProxy.write"}
    /\ LET f == [call EXCEPT !.prefaces = @ + 1] IN
       \/ /\ IF pc[Caller] = "DoProxy.write"
             THEN Step([f EXCEPT !.written = Append(@, call.reqRawdata)],
                       "DoProxy.read")
             ELSE Step(f, "httpProxy.read")
          /\ UNCHANGED connClosed
       \/ \E e \in WriteErrs :
           /\ Return(f, e)
           /\ connClosed' = IF pc[Caller] = "httpProxy.write"
                            THEN connClosed \cup {call.conn} ELSE connClosed
    /\ UNCHANGED <<poolVars, mu, now, clientVars, ghostVars>>

\* DoProxy after its Write: n, err := conn.Read(buf) and the test of what
\* was read; then req.Rawdata becomes the rest of the request and DoConn
\* runs the exchange on the same connection.
DoProxyRead ==
    /\ pc[Caller] = "DoProxy.read"
    /\ \/ \E seg \in ProxySegments :
           IF ~contains200[seg]
           THEN Return([call EXCEPT !.n = seg], TunnelError(seg))
           ELSE Step([call EXCEPT !.n = seg,
                                  !.reqRawdata = Join(Tail(call.parts), CRLF)],
                     "Write")
       \/ Return(call, TunnelError(""))
       \/ \E e \in ReadErrs \ {IoEOF, TimeoutErr} : Return(call, e)
    /\ UNCHANGED <<poolVars, mu, now, connClosed, clientVars, ghostVars>>

\* httpProxy.Dial after its Write: http.ReadResponse(bufio.NewReader(c), req)
\* and the test of the status code; it returns c, and with it goes what the
\* bufio.Reader had read past the head.  DoWithProxy then runs DoConn on c.
httpProxyRead ==
    /\ pc[Caller] = "httpProxy.read"
    /\ \/ \E seg \in ProxySegments :
           LET resp == proxyResponse[seg] IN
           IF resp.StatusCode # "200"
           THEN /\ Return([call EXCEPT !.n = seg],
                          ProxyStatusError(resp.StatusCode))
                /\ connClosed' = connClosed \cup {call.conn}
           ELSE /\ Step([call EXCEPT !.n = seg, !.buffered = resp.buffered],
                        "Write")
                /\ UNCHANGED connClosed
       \/ \E e \in {NewError("unexpected EOF"),
                    NewError("read tcp: read: connection reset by peer")} :
           /\ Return(call, e)
           /\ connClosed' = connClosed \cup {call.conn}
    /\ UNCHANGED <<poolVars, mu, now, clientVars, ghostVars>>

\* mutant of AfterWrite: the read loop is entered whatever Write returned.
AfterWriteReads(err) == "Read"

\* if _, err := conn.Write(req.Bytes()); err != nil { return err }
AfterWrite(err) == IF err.nil THEN "Read" ELSE "Finish"

\* doConnInternal: conn.Write(req.Bytes()); after it the absolute deadline
\* of the read loop, which starts in Phase 1.
Write ==
    /\ pc[Caller] = "Write"
    /\ LET f == [call EXCEPT !.writes = @ + 1] IN
       \/ \E e \in WriteErrs : Step([f EXCEPT !.err = e], AfterWrite(e))
       \/ Step([f EXCEPT !.written = Append(@, call.reqBytes),
                         !.writeTime = now,
                         !.absoluteDeadline = now + Timeout,
                         !.readDeadline = now + Timeout], AfterWrite(NilErr))
    /\ UNCHANGED <<poolVars, mu, now, connClosed, clientVars, ghostVars>>

\* quietTimeout := obj.QuietTimeout, or DefaultQuietTimeout when that is 0
quietTimeout ==
    IF client.QuietTimeout = 0 THEN DefaultQuietTimeout ELSE client.QuietTimeout

\* mutant of QuietDeadline: the absolute deadline does not cap it.
QuietDeadlineUncapped(t, absoluteDeadline) == t + quietTimeout

\* readDeadline = time.Now().Add(quietTimeout), but not after absoluteDeadline
QuietDeadline(t, absoluteDeadline) ==
    IF t + quietTimeout > absoluteDeadline THEN absoluteDeadline ELSE t + quietTimeout

\* resp.Rawdata = append(resp.Rawdata, buf[:n]...)
Received(rawdata, n) == rawdata \o n

\* One turn of the read loop in which conn.Read returns bytes before the
\* deadline: they are appended to resp.Rawdata and the loop goes on in
\* Phase 2.
ReadData ==
    /\ pc[Caller] = "Read"
    /\ now < call.readDeadline
    /\ call.reads < MaxReads
    /\ \E seg \in Segments :
        Step([call EXCEPT !.n = seg, !.readErr = NilErr, !.receivedData = TRUE,
                          !.TimeToFirstByte = IF call.receivedData THEN @
                                              ELSE now - call.writeTime,
                          !.TimeToLastByte = now - call.writeTime,
                          !.rawdata = Received(@, seg),
                          !.arrived = Append(@, seg), !.reads = @ + 1,
                          !.readDeadline = QuietDeadline(now, call.absoluteDeadline)],
             "Read")
    /\ UNCHANGED <<poolVars, mu, now, connClosed, clientVars, ghostVars>>

\* One turn of the read loop in which conn.Read returns no byte and an
\* error: a timeout when the deadline has passed, another error before it.
\* doConnInternal returns what ReadResult says.
ReadFail ==
    /\ pc[Caller] = "Read"
    /\ \E e \in ReadErrs :
        /\ isTimeoutError(e) <=> now >= call.readDeadline
        /\ Step([call EXCEPT !.n = "", !.readErr = e,
                             !.err = ReadResult(e, call.receivedData)],
                "Finish")
    /\ UNCHANGED <<poolVars, mu, now, connClosed, clientVars, ghostVars>>

\* &Response{}
NewResponse ==
    [Rawdata |-> "", TimeToFirstByte |-> 0, TimeToLastByte |-> 0,
     parsed |-> FALSE, httpLine |-> "", statusCode |-> 0,
     preBody |-> "", body |-> ""]

\* mutant of Reset: the raw bytes and the timings stay.
ResetParsedOnly(resp) ==
    [resp EXCEPT !.parsed = FALSE, !.httpLine = "", !.statusCode = 0,
                 !.preBody = "", !.body = ""]

\* Response.Reset clears the response state.
Reset(resp) ==
    [resp EXCEPT !.Rawdata = "", !.TimeToFirstByte = 0, !.TimeToLastByte = 0,
                 !.parsed = FALSE, !.httpLine = "", !.statusCode = 0,
                 !.preBody = "", !.body = ""]

\* The response of the call with locals f after conn.Close(); resp.Reset()
\* of the stale retry.
Retried(f) ==
    Reset([NewResponse EXCEPT !.Rawdata = f.rawdata,
                              !.TimeToFirstByte = f.TimeToFirstByte,
                              !.TimeToLastByte = f.TimeToLastByte])

\* doConnInternal has returned call.err.  In doConnWithPool the connection
\* goes to the pool or is closed, and DoHTTP/DoHTTPS returns the error or,
\* for a stale error on a pooled connection, closes, resets the response and
\* goes on to dial.  In DoConn (DoProxy, DoWithProxy) the connection is
\* closed and the error returned.
Finish ==
    /\ pc[Caller] = "Finish"
    /\ CanLock(Caller)
    /\ LET reuse == call.path = "http" /\ canReuse(call, call.err)
           o == IF reuse THEN PutOutcome(conns, call.key, call.conn, now)
                ELSE [conns |-> conns, ok |-> FALSE, shut |-> {}]
           f == [call EXCEPT !.puts = IF reuse THEN @ + 1 ELSE @]
       IN  /\ conns' = o.conns
           /\ connClosed' = connClosed \cup o.shut
                                \cup (IF o.ok THEN {} ELSE {call.conn})
           /\ IF call.path = "http" /\ call.pooled /\ staleConnError[call.err]
              THEN Step([NoExchange EXCEPT
                            !.rawdata = Retried(f).Rawdata,
                            !.TimeToFirstByte = Retried(f).TimeToFirstByte,
                            !.TimeToLastByte = Retried(f).TimeToLastByte,
                            !.reqRawdata = f.reqRawdata,
                            !.reqBytes = f.reqBytes,
                            !.key = f.key, !.path = f.path,
                            !.wantsClose = f.wantsClose,
                            !.wantsUpgrade = f.wantsUpgrade,
                            !.err = f.err, !.gets = f.gets, !.puts = f.puts,
                            !.dials = f.dials, !.prefaces = f.prefaces,
                            !.writes = f.writes, !.resets = f.resets + 1],
                        "Dial")
              ELSE Return(f, call.err)
    /\ UNCHANGED <<maxIdlePerHost, idleTimeout, closed, mu, now, clientVars, ghostVars>>

\* The caller sets or clears Client.DisableKeepAlive between two calls.
SetDisableKeepAlive ==
    /\ pc[Caller] = "idle"
    /\ client.pool /\ client.proxyURI = ""
    /\ client' = [client EXCEPT !.DisableKeepAlive = ~@]
    /\ UNCHANGED <<poolVars, mu, now, connClosed, pc, frame, dialed, ghostVars>>

\* The clock advances while the caller is between two calls or waits in a
\* Read; the other steps of a call take no time.
Wait ==
    /\ pc[Caller] \in {"idle", "Read"}
    /\ Tick

InitCall ==
    /\ \E s \in CallSetups :
        /\ InitPool({s.args})
        /\ client = s.client
    /\ frame = [t \in Threads |-> NoExchange]
    /\ pc = [t \in Threads |-> "idle"]

NextCall ==
    \/ NewRequest
    \/ Do
    \/ Returns
    \/ PoolGet
    \/ Dial
    \/ ConnectWrite
    \/ DoProxyRead
    \/ httpProxyRead
    \/ Write
    \/ ReadData
    \/ ReadFail
    \/ Finish
    \/ SetDisableKeepAlive
    \/ ClientClose
    \/ CloseIdleConnections
    \/ Wait

SpecCall == InitCall /\ [][NextCall]_vars

\* ----------------------------------------------------------------------
\* One call of Client.Do under fair scheduling.

\* conn.Read blocks while neither bytes nor the deadline have come: the
\* clock goes on to the deadline of the pending Read, past the time up to
\* which the caller starts calls.
Elapse ==
    /\ pc[Caller] = "Read"
    /\ MaxTime <= now /\ now < call.readDeadline
    /\ now' = now + 1
    /\ UNCHANGED <<poolVars, mu, connClosed, pc, frame, clientVars, ghostVars>>

NextCallLive ==
    \/ NextCall
    \/ Elapse

\* The steps of the goroutine that runs Do, from one blocking call to the
\* next; Dial has a timeout and Write returns.
CallerSteps ==
    \/ Do
    \/ Returns
    \/ PoolGet
    \/ Dial
    \/ ConnectWrite
    \/ Write
    \/ Finish

\* Time passes while a Read of the read loop is pending.
TimePasses ==
    \/ Wait /\ pc[Caller] = "Read"
    \/ Elapse

\* A Read whose deadline has passed returns the timeout error.
ReadTimesOut == ReadFail /\ now >= call.readDeadline

\* The scheduler runs the caller; the Reads of the read loop, which carry a
\* deadline, return by it.  The handshake Reads of DoProxy and
\* httpProxy.Dial carry none, and what the server sends or whether it
\* fails is not owed.
SpecCallLive ==
    /\ InitCall
    /\ [][NextCallLive]_vars
    /\ WF_vars(CallerSteps)
    /\ WF_vars(TimePasses)
    /\ WF_vars(ReadTimesOut)

\* ======================================================================
\* SpecNet: DoHTTP and the servers at the other end of its connections
\* ======================================================================
\* One goroutine calls Do again and again with requests for http URLs of two
\* hosts, with and without an IP override, on a client with a pool.  The
\* other end of every open connection is kept: the address it was dialed
\* to, and the chunks the server has sent on it that the client has not
\* read, each with whether the server sent it before the request the client
\* wrote last.  The server sends when it likes once it has a request, also
\* after the client has stopped reading.

\* The thread whose frame holds the other end of the connections.
Server == 2

\* The hosts of the URLs and the values of Request.IP.
Hosts == {"a.test", "b.test"}
IPs == {"", "10.0.0.9"}

\* Request.Addr: the IP override when req.IP is set, else the URL's host.
Addr(host, ip, port) ==
    IF ip = "" THEN host \o ":" \o port ELSE ip \o ":" \o port

\* The locals of a call of DoHTTP: the request's URL host and IP, the pool
\* key, the connection in hand and whether it came from the pool,
\* resp.Rawdata, receivedData and the error of doConnInternal, and the
\* caller's records: the bytes of resp.Rawdata that the server had sent
\* before this request was written, and the count of resp.Reset.
NoNetCall ==
    [host |-> "", ip |-> "", key |-> "", conn |-> NilConn, pooled |-> FALSE,
     wantsClose |-> FALSE, wantsUpgrade |-> FALSE,
     rawdata |-> "", receivedData |-> FALSE, err |-> NilErr,
     early |-> "", resets |-> 0]

\* The other end of a connection dialed to addr by a request with the pool
\* key given: no request received, no chunk sent.
Peer(addr, key) ==
    [addr |-> addr, key |-> key, asked |-> FALSE, sends |-> 0, unread |-> <<>>]

\* The other end of a connection the client has closed.
Gone == Peer("", "")

\* The other ends of the connections, by connection.
network == frame[Server]

\* The other ends net after the client has closed the connections cs.
Hangup(net, cs) == [c \in DOMAIN net |-> IF c \in cs THEN Gone ELSE net[c]]

\* The chunks of a connection's unread ones, all marked as sent before the
\* request written now.
Earlier(unread) ==
    [i \in DOMAIN unread |-> [unread[i] EXCEPT !.early = TRUE]]

\* The caller's locals become f, the caller goes on at position p, and the
\* other ends become net.
NetStep(f, p, net) ==
    /\ frame' = [frame EXCEPT ![Caller] = f, ![Server] = net]
    /\ pc' = [pc EXCEPT ![Caller] = p]

\* Do up to the first operation on the network: the dispatch to DoHTTP, the
\* pool key from the URL's scheme, host and port, and obj.pool.Get(poolKey).
NetDo ==
    /\ pc[Caller] = "idle"
    /\ \E host \in Hosts, ip \in IPs :
        LET key == PoolKey("http", host, DefaultPort("http"))
            f == [NoNetCall EXCEPT !.host = host, !.ip = ip, !.key = key]
            o == IF UsesPool THEN GetOutcome(conns, key, now)
                 ELSE [conns |-> conns, ret |-> NilConn, shut |-> {}]
        IN  /\ conns' = o.conns
            /\ connClosed' = connClosed \cup o.shut
            /\ IF o.ret # NilConn
               THEN NetStep([f EXCEPT !.conn = o.ret, !.pooled = TRUE],
                            "Net.write", Hangup(network, o.shut))
               ELSE NetStep(f, "Net.dial", Hangup(network, o.shut))
    /\ UNCHANGED <<maxIdlePerHost, idleTimeout, closed, mu, now, clientVars, ghostVars>>

\* conn, err := obj.httpDialer().Dial("tcp", req.Addr(port)); if err != nil
\* { return err }
NetDial ==
    /\ pc[Caller] = "Net.dial"
    /\ LET f == frame[Caller] IN
       \/ /\ dialed < MaxConns
          /\ dialed' = dialed + 1
          /\ NetStep([f EXCEPT !.conn = dialed + 1, !.pooled = FALSE],
                     "Net.write",
                     Append(network,
                            Peer(Addr(f.host, f.ip, DefaultPort("http")), f.key)))
       \/ /\ NetStep([NoNetCall EXCEPT !.err = DialErr], "idle", network)
          /\ UNCHANGED dialed
    /\ UNCHANGED <<poolVars, mu, now, connClosed, client, ghostVars>>

\* doConnInternal: conn.Write(req.Bytes()) fails, or the request reaches
\* the other end of the connection; what waits unread there was sent
\* before it.
NetWrite ==
    /\ pc[Caller] = "Net.write"
    /\ LET f == frame[Caller]
           c == f.conn
       IN  \/ \E e \in WriteErrs :
                NetStep([f EXCEPT !.err = e], "Net.finish", network)
           \/ NetStep(f, "Net.read",
                      [network EXCEPT ![c].asked = TRUE,
                                      ![c].unread = Earlier(@)])
    /\ UNCHANGED <<poolVars, mu, now, connClosed, clientVars, ghostVars>>

\* The server at the other end of an open connection sends a chunk in
\* answer to the request it received last.
ServerSends ==
    /\ \E c \in (1..dialed) \ connClosed, data \in Chunks :
        /\ network[c].asked
        /\ network[c].sends < MaxReads
        /\ frame' = [frame EXCEPT
                        ![Server][c].sends = @ + 1,
                        ![Server][c].unread =
                            Append(@, [data |-> data, early |-> FALSE])]
    /\ UNCHANGED <<poolVars, mu, now, connClosed, pc, clientVars, ghostVars>>

\* One turn of the read loop in which conn.Read returns bytes: the chunk
\* that has waited longest on the connection is appended to resp.Rawdata.
NetRead ==
    /\ pc[Caller] = "Net.read"
    /\ LET f == frame[Caller]
           c == f.conn
           unread == network[c].unread
       IN  /\ unread # <<>>
           /\ NetStep([f EXCEPT !.rawdata = Received(@, Head(unread).data),
                                !.receivedData = TRUE,
                                !.early = IF Head(unread).early
                                          THEN @ \o Head(unread).data ELSE @],
                      "Net.read",
                      [network EXCEPT ![c].unread = Tail(@)])
    /\ UNCHANGED <<poolVars, mu, now, connClosed, clientVars, ghostVars>>

\* One turn of the read loop in which conn.Read returns no byte and an
\* error, with nothing left to read on the connection: doConnInternal
\* returns what ReadResult says.
NetReadEnd ==
    /\ pc[Caller] = "Net.read"
    /\ LET f == frame[Caller] IN
        /\ network[f.conn].unread = <<>>
        /\ \E e \in ReadErrs :
             NetStep([f EXCEPT !.err = ReadResult(e, f.receivedData)],
                     "Net.finish", network)
    /\ UNCHANGED <<poolVars, mu, now, connClosed, clientVars, ghostVars>>

\* doConnInternal has returned: in doConnWithPool the connection goes to
\* the pool or is closed, and DoHTTP returns, or after a stale error on a
\* pooled connection closes it, resets the response and goes on to dial.
NetFinish ==
    /\ pc[Caller] = "Net.finish"
    /\ LET f == frame[Caller]
           reuse == canReuse(f, f.err)
           o == IF reuse THEN PutOutcome(conns, f.key, f.conn, now)
                ELSE [conns |-> conns, ok |-> FALSE, shut |-> {}]
           shut == o.shut \cup (IF o.ok THEN {} ELSE {f.conn})
       IN  /\ conns' = o.conns
           /\ connClosed' = connClosed \cup shut
           /\ IF f.pooled /\ staleConnError[f.err]
              THEN NetStep([NoNetCall EXCEPT !.host = f.host, !.ip = f.ip,
                                             !.key = f.key, !.err = f.err,
                                             !.resets = f.resets + 1],
                           "Net.dial", Hangup(network, shut))
              ELSE NetStep([NoNetCall EXCEPT !.err = f.err], "idle",
                           Hangup(network, shut))
    /\ UNCHANGED <<maxIdlePerHost, idleTimeout, closed, mu, now, clientVars, ghostVars>>

InitNet ==
    /\ InitPool({<<DefaultMaxIdleConnsPerHost, DefaultIdleTimeout>>})
    /\ client = PooledClient
    /\ frame = [t \in Threads |-> IF t = Caller THEN NoNetCall ELSE <<>>]
    /\ pc = [t \in Threads |-> "idle"]

NextNet ==
    \/ NetDo
    \/ NetDial
    \/ NetWrite
    \/ ServerSends
    \/ NetRead
    \/ NetReadEnd
    \/ NetFinish

SpecNet == InitNet /\ [][NextNet]_vars

\* ======================================================================
\* SpecMsg: a request and a response in the caller's hands
\* ======================================================================
\* One goroutine holds a Request made from raw bytes and takes it through
\* what Do does to it before it is written: ParseRawdata, the client's
\* TransformRequestFunc, Bytes.  Or it holds a Response whose Rawdata an
\* exchange has filled, and calls its methods.

\* The header names of the requests: a name, the same name in another case,
\* a name that looks like "<name>_<index>", and another name.
HeaderNames == {"Host", "Cookie", "cookie", "Cookie_2"}

\* The sequences of at most n header names.
RECURSIVE NameSeqs(_)
NameSeqs(n) ==
    IF n = 0 THEN {<<>>}
    ELSE LET shorter == NameSeqs(n - 1)
         IN  shorter \cup {Append(s, h) : s \in shorter, h \in HeaderNames}

\* A request buffer with the given header names, the i-th with value v<i>.
RequestWith(names) ==
    Join(<<"GET / HTTP/1.1">>
             \o [i \in 1..Len(names) |-> names[i] \o ": v" \o Itoa(i)], CRLF)
        \o CRLF \o CRLF

\* Request buffers with ||CLEN|| in a header, before bodies that are
\* truncated, expanded, of ten bytes and more, empty, that hold bare LF
\* line endings or a blank line, and one without any CRLF.
ClenRequests ==
    {"POST / HTTP/1.1\r\nContent-Length: ||CLEN||\r\n\r\n" \o body :
        body \in {"ping||END||pong", "||HOST||", "0123456789ab", "",
                  "a\nb", "a||CR||||LF||b", "x||CLEN||", "a\r\n\r\nb||END||c"}}
    \cup {"POST / HTTP/1.1\nContent-Length: ||CLEN||\nX-Len: ||CLEN||\n\npi||END||ng"}

\* Request buffers with ||CR|| and ||LF|| in the body.
TokenRequests ==
    {"POST /a HTTP/1.1\r\nX-A: b\r\n\r\n" \o body :
        body \in {"a||LF||b", "a||CR||b", "a||CR||||LF||b||LF||"}}

\* The URL of the requests of SpecMsg.
MsgURL == "http://a.test/"

\* strconv.Atoi of a string of digits.
RECURSIVE Atoi(_)
Atoi(s) ==
    IF Len(s) = 0 THEN 0
    ELSE 10 * Atoi(SubSeq(s, 1, Len(s) - 1))
            + Index("0123456789", SubSeq(s, Len(s), Len(s)))

\* Response.ParseRawdata for responses whose head names no body length and
\* no encoding: preBody is set first; http.ReadResponse fails when the head
\* has no end; otherwise the body is what follows the head.
ResponseParseRawdata(resp) ==
    IF resp.parsed THEN resp
    ELSE LET parts == Split(resp.Rawdata, CRLF \o CRLF)
             r == [resp EXCEPT !.preBody = parts[1]]
         IN  IF Len(parts) < 2 THEN r
             ELSE LET read == ReadResponse(resp.Rawdata)
                  IN  [r EXCEPT !.body = read.buffered,
                                !.statusCode = Atoi(read.StatusCode),
                                !.parsed = TRUE]

\* The raw responses of SpecMsg: what an exchange can leave in resp.Rawdata.
ResponseRawdatas ==
    Chunks \cup
    {"",
     "HTTP/1.1 200 OK\r\n",
     "HTTP/1.1 200 OK\r\nConnection: keep-alive\r\n",
     "HTTP/1.1 200 OK\r\nConnection: close",
     "HTTP/1.1 200 OK\r\nconnection:  CLOSE \r\n\r\n",
     "HTTP/1.1 200 OK\r\nConnection : close\r\n\r\n",
     "HTTP/1.1 200 OK\r\nConnection: keep-alive\r\nConnection: close\r\n\r\n",
     "HTTP/1.1 200 OK\r\nConnection: close\r\nConnection: keep-alive\r\n\r\n",
     "HTTP/1.1 200 OK\r\nConnection: keep-alive, close\r\n\r\n",
     "HTTP/1.1 200 OK\r\nConnection: closed\r\n\r\n",
     "HTTP/1.1 200 OK\r\nX-Connection: close\r\n\r\n",
     "HTTP/1.1 200 OK\r\nX: y\r\nConnection: close\r\n\r\nbody",
     "HTTP/1.1 404 Not Found\r\n\r\nConnection: close\r\n\r\n"}

\* A response with every field set, as a caller of the package can hold it
\* (the timings in ticks).
ParsedResponse ==
    [Rawdata |-> "HTTP/1.1 200 OK\r\n\r\nbody",
     TimeToFirstByte |-> 1, TimeToLastByte |-> 2,
     parsed |-> TRUE, httpLine |-> "HTTP/1.1 200 OK", statusCode |-> 200,
     preBody |-> "HTTP/1.1 200 OK", body |-> "body"]

\* What the caller of SpecMsg holds: the buffer the request was made from,
\* the request, the error of ParseRawdata, the transform applied, what
\* Bytes returned, what it had returned in the call of Do before when
\* the request was sent again, and the number of SetHeader calls; the
\* response and what ConnectionClose answered.
NoMessage ==
    [raw |-> "", req |-> Request("", ""), err |-> NilErr, transform |-> "",
     out |-> [panic |-> FALSE, bytes |-> ""],
     first |-> [panic |-> FALSE, bytes |-> ""], sets |-> 0,
     resp |-> NewResponse, asked |-> FALSE, closes |-> FALSE, resets |-> 0]

\* The caller's message becomes f and the caller goes on at position p.
MsgStep(f, p) ==
    /\ frame' = [frame EXCEPT ![Caller] = f]
    /\ pc' = [pc EXCEPT ![Caller] = p]
    /\ UNCHANGED <<poolVars, mu, now, connClosed, clientVars, ghostVars>>

\* req.ParseRawdata()
RequestParse ==
    /\ pc[Caller] = "request"
    /\ LET o == ParseRawdata(frame[Caller].req)
       IN  MsgStep([frame[Caller] EXCEPT !.req = o.req, !.err = o.err],
                   IF o.err.nil THEN "parsed" ELSE "failed")

\* obj.TransformRequestFunc(req) of NewDefaultClient and its like.
RequestPrepare ==
    /\ pc[Caller] = "parsed"
    /\ MsgStep([frame[Caller] EXCEPT !.req = PrepareRequest(@),
                                     !.transform = "PrepareRequest"],
               "prepared")

\* obj.TransformRequestFunc(req) of NewClientTransferVariables.
RequestPrepareVariables ==
    /\ pc[Caller] = "parsed"
    /\ MsgStep([frame[Caller] EXCEPT !.req = PrepareRequestVariables(@),
                                     !.transform = "PrepareRequestVariables"],
               "prepared")

\* The calls of SetHeader the caller makes on one request at most.
MaxSets == 2

\* What the caller passes to SetHeader: the key, and the name to store; a
\* key ParseRawdata stores for the header names of the model, and a new
\* one.
SetHeaderArgs == {<<"cookie", "Cookie">>, <<"x-new", "X-New">>}

\* Request.SetHeader: the entry under key, with Pos = len(obj.headers) when
\* the map has none, gets the name and the value.
SetHeader(req, key, name, value) ==
    LET hl == IF key \in DOMAIN req.headers THEN req.headers[key]
              ELSE HeaderLine("", "", Cardinality(DOMAIN req.headers))
    IN  [req EXCEPT !.headers = MapSet(@, key, HeaderLine(name, value, hl.Pos))]

\* req.SetHeader(key, name, value) on a request that parsed.
RequestSetHeader ==
    /\ pc[Caller] \in {"parsed", "header set"}
    /\ frame[Caller].sets < MaxSets
    /\ \E a \in SetHeaderArgs :
        MsgStep([frame[Caller] EXCEPT !.req = SetHeader(@, a[1], a[2], "set"),
                                      !.sets = @ + 1],
                "header set")

\* req.Bytes(), right after ParseRawdata, after the transform, or after
\* SetHeader.
RequestBytes ==
    /\ pc[Caller] \in {"parsed", "prepared", "header set"}
    /\ MsgStep([frame[Caller] EXCEPT !.out = Bytes(frame[Caller].req)],
               IF pc[Caller] = "header set" THEN "emitted set" ELSE "emitted")

\* obj.TransformRequestFunc of the client whose transform is named.
TransformRequestFunc(transform, req) ==
    IF transform = "PrepareRequest" THEN PrepareRequest(req)
    ELSE PrepareRequestVariables(req)

\* A second Client.Do with the request of the first, up to its Write:
\* req.ParseRawdata(), which returns at once for a parsed request, the
\* client's transform, and req.Bytes().
RequestAgain ==
    /\ pc[Caller] = "emitted"
    /\ frame[Caller].transform # ""
    /\ LET req == TransformRequestFunc(frame[Caller].transform,
                                       ParseRawdata(frame[Caller].req).req)
       IN  MsgStep([frame[Caller] EXCEPT !.req = req,
                                         !.first = frame[Caller].out,
                                         !.out = Bytes(req)],
                   "emitted again")

\* resp.StatusCode() or resp.Body(): both start with ParseRawdata.
ResponseParse ==
    /\ pc[Caller] = "response"
    /\ ~frame[Caller].resp.parsed
    /\ frame[Caller].resp.preBody = ""
    /\ MsgStep([frame[Caller] EXCEPT !.resp = ResponseParseRawdata(@)], "response")

\* resp.ConnectionClose()
ResponseConnectionClose ==
    /\ pc[Caller] = "response"
    /\ ~frame[Caller].asked
    /\ MsgStep([frame[Caller] EXCEPT
                   !.asked = TRUE,
                   !.closes = ConnectionClose(frame[Caller].resp.Rawdata)],
               "response")

\* resp.Reset()
ResponseReset ==
    /\ pc[Caller] = "response"
    /\ frame[Caller].resets = 0
    /\ MsgStep([frame[Caller] EXCEPT !.resp = Reset(@), !.asked = FALSE,
                                     !.closes = FALSE, !.resets = 1],
               "response")

\* The caller holds a request made from a buffer, or a response an exchange
\* has filled in one tick, or the response with every field set.
InitMsg ==
    /\ InitPool({<<DefaultMaxIdleConnsPerHost, DefaultIdleTimeout>>})
    /\ client = PooledClient
    /\ \/ \E raw \in {RequestWith(names) : names \in NameSeqs(MaxHeaders)}
                        \cup ClenRequests \cup TokenRequests :
            /\ frame = [t \in Threads |->
                          IF t = Caller
                          THEN [NoMessage EXCEPT !.raw = raw,
                                                 !.req = Request(raw, MsgURL)]
                          ELSE NoMessage]
            /\ pc = [t \in Threads |-> IF t = Caller THEN "request" ELSE "idle"]
       \/ \E raw \in ResponseRawdatas :
            /\ frame = [t \in Threads |->
                          IF t = Caller
                          THEN [NoMessage EXCEPT
                                   !.raw = raw,
                                   !.resp = [NewResponse EXCEPT
                                                !.Rawdata = raw,
                                                !.TimeToFirstByte = IF raw = "" THEN 0 ELSE 1,
                                                !.TimeToLastByte = IF raw = "" THEN 0 ELSE 1]]
                          ELSE NoMessage]
            /\ pc = [t \in Threads |-> IF t = Caller THEN "response" ELSE "idle"]
       \/ /\ frame = [t \in Threads |->
                          IF t = Caller
                          THEN [NoMessage EXCEPT !.raw = ParsedResponse.Rawdata,
                                                 !.resp = ParsedResponse]
                          ELSE NoMessage]
          /\ pc = [t \in Threads |-> IF t = Caller THEN "response" ELSE "idle"]

NextMsg ==
    \/ RequestParse
    \/ RequestPrepare
    \/ RequestPrepareVariables
    \/ RequestSetHeader
    \/ RequestBytes
    \/ RequestAgain
    \/ ResponseParse
    \/ ResponseConnectionClose
    \/ ResponseReset

SpecMsg == InitMsg /\ [][NextMsg]_vars

\* ======================================================================
\* Claims about the pool's API (checked under Spec)
\* ======================================================================

\* This step is a call of the pool method op by the API driver (the only
\* other step of Spec is Tick, which alone moves the clock).
CallOf(op) == now' = now /\ last'.op = op

\* C1: in every reachable state no key holds more than maxIdlePerHost idle
\* connections; and when maxIdlePerHost + 1 Puts of non-nil connections under
\* one key have followed one another on an open pool with nothing expired,
\* the last of them returned false and the key holds exactly maxIdlePerHost.
C1_LenForHostBounded ==
    /\ \A k \in Keys \cup DOMAIN conns : LenForHost(k) <= maxIdlePerHost
    /\ (last.op = "Put" /\ last.run > maxIdlePerHost) =>
           (~last.ok /\ LenForHost(last.key) = maxIdlePerHost)

\* C1 witness: the third Put in a row under one key of a pool of capacity 2
\* was refused and the key holds 2.
C1_Witness ==
    /\ maxIdlePerHost = 2
    /\ last.op = "Put" /\ last.run = 3 /\ ~last.ok
    /\ LenForHost(last.key) = 2

\* The connection most recently accepted under k that was neither returned
\* nor closed since, by the driver's log; NilConn when there is none.
Newest(log, k) == IF Len(log[k]) = 0 THEN NilConn ELSE log[k][Len(log[k])]

\* C2: a Get(k) during which nothing expires returns the connection most
\* recently Put under k and not yet returned, and none when there is no such
\* connection, whatever was put or got under other keys in between.
C2_GetIsLIFO ==
    [][(CallOf("Get") /\ last'.shut = {})
          => last'.conn = Newest(order, last'.key)]_vars

\* C2 witness: a Get returned a connection while two older ones of the same
\* key stay idle (Put a, b, c; Get = c).
C2_Witness ==
    /\ last.op = "Get" /\ last.ok
    /\ Len(order[last.key]) = 2
    /\ LenForHost(last.key) = 2

\* An entry has been idle for idleTimeout or longer.
IdleTooLong(e) == now - e.idleAt >= idleTimeout

\* The connections of the entries that have been idle too long.
TooLongIdle(entries) ==
    {entries[i].conn : i \in {j \in 1..Len(entries) : IdleTooLong(entries[j])}}

\* The entries that have not, in their order.
Fresh(entries) == SelectSeq(entries, LAMBDA e : ~IdleTooLong(e))

\* C3: a Get(k) on an open pool never returns a connection idle for
\* idleTimeout or longer; it closes and removes every such entry of k; it
\* returns none when k holds no other entry; and from a key holding one
\* expired and one valid entry it returns the valid one and leaves the key
\* without entries, so that the next Get finds none.
C3_GetSkipsExpired ==
    [][CallOf("Get") =>
        LET k == last'.key
            before == Entries(conns, k)
            gone == TooLongIdle(before)
        IN  /\ last'.conn # NilConn => last'.conn \in ConnsOf(before) \ gone
            /\ last'.shut = gone
            /\ gone \subseteq connClosed'
            /\ gone \cap PoolConns(conns') = {}
            /\ ConnsOf(before) \subseteq gone => last'.conn = NilConn
            /\ (Len(before) = 2 /\ Cardinality(gone) = 1) =>
                   /\ last'.conn \in ConnsOf(before) \ gone
                   /\ Len(Entries(conns', k)) = 0]_vars

\* C3 witness: one Get returned a connection and closed an expired one.
C3_Witness ==
    /\ last.op = "Get" /\ last.ok
    /\ last.shut # {}
    /\ LenForHost(last.key) = 0

\* C4: once CloseAll has run the pool stays marked closed and empty, the
\* connections it held when CloseAll ran are closed, every later Get returns
\* none and every later Put returns false, whatever is called afterwards.
C4_CloseAllAbsorbing ==
    /\ [](closed => PoolLen = 0)
    /\ [][CallOf("CloseAll")
            => closed' /\ PoolLen' = 0 /\ PoolConns(conns) \subseteq connClosed']_vars
    /\ [][closed => closed']_vars
    /\ [][(closed /\ CallOf("Get")) => last'.conn = NilConn]_vars
    /\ [][(closed /\ CallOf("Put")) => ~last'.ok]_vars

\* C4 witness: the pool closed two connections, was closed by CloseAll, and
\* a later Put of a live connection was refused.
C4_Witness ==
    /\ closed
    /\ last.op = "Put" /\ last.conn # NilConn /\ ~last.ok
    /\ last.shut = {}
    /\ Cardinality(connClosed) = 2

\* C5: CloseIdle closes every idle connection and leaves the pool empty and
\* its closed flag as it was; a Get right after it returns none; on an open
\* pool a Put of a non-nil connection right after it returns true, and a Get
\* of the same key right after that Put returns that connection (unless it
\* expired meanwhile).
C5_CloseIdleKeepsPoolOpen ==
    /\ [][CallOf("CloseIdle")
            => /\ PoolLen' = 0
               /\ closed' = closed
               /\ PoolConns(conns) \subseteq connClosed']_vars
    /\ [][(last.op = "CloseIdle" /\ CallOf("Get")) => last'.conn = NilConn]_vars
    /\ [][(last.op = "CloseIdle" /\ ~closed /\ CallOf("Put") /\ last'.conn # NilConn)
            => last'.ok]_vars
    /\ [][(/\ last.op = "Put" /\ last.ok /\ last.afterIdle
           /\ CallOf("Get") /\ last'.key = last.key /\ last'.shut = {})
            => last'.conn = last.conn]_vars

\* C5 witness: CloseIdle closed a connection, the Put after it was accepted
\* and the Get after that returned the connection put.
C5_Witness ==
    /\ ~closed
    /\ last.op = "Get" /\ last.ok /\ last.afterIdle
    /\ connClosed # {}

\* C6 as stated: Put counts every entry held under k, expired or not.
\* Put(k, conn) returns false and does not add conn if conn is nil, the pool
\* is closed or k holds maxIdlePerHost entries or more; otherwise it returns
\* true, conn is the newest entry of k with idle_since = now, k holds exactly
\* one entry more and no other key changes.
C6_PutCountsEveryEntry ==
    [][CallOf("Put") =>
        LET k == last'.key
            c == last'.conn
            before == Entries(conns, k)
            after == Entries(conns', k)
        IN  IF c = NilConn \/ closed \/ Len(before) >= maxIdlePerHost
            THEN ~last'.ok /\ c \notin PoolConns(conns')
            ELSE /\ last'.ok
                 /\ Len(after) = Len(before) + 1
                 /\ after[Len(after)] = [conn |-> c, idleAt |-> now]
                 /\ \A k2 \in (Keys \cup DOMAIN conns) \ {k} :
                        Entries(conns', k2) = Entries(conns, k2)]_vars

\* C6 amended: the entries of k that have expired do not count and are
\* evicted by the Put.  Put(k, conn) returns false and does not add conn if
\* conn is nil, the pool is closed or k holds maxIdlePerHost or more entries
\* that have not expired; otherwise it returns true and k then holds its
\* unexpired entries followed by conn with idle_since = now.  A nil conn or
\* a closed pool leaves the pool as it was; no other key changes.
C6_PutCountsFreshEntries ==
    [][CallOf("Put") =>
        LET k == last'.key
            c == last'.conn
            before == Entries(conns, k)
            after == Entries(conns', k)
        IN  /\ IF c = NilConn \/ closed
               THEN ~last'.ok /\ conns' = conns /\ connClosed' = connClosed
               ELSE /\ connClosed' = connClosed \cup TooLongIdle(before)
                    /\ IF Len(Fresh(before)) >= maxIdlePerHost
                       THEN ~last'.ok /\ after = Fresh(before)
                       ELSE /\ last'.ok
                            /\ after = Append(Fresh(before), [conn |-> c, idleAt |-> now])
            /\ c \in PoolConns(conns') <=> last'.ok
            /\ \A k2 \in (Keys \cup DOMAIN conns) \ {k} :
                   Entries(conns', k2) = Entries(conns, k2)]_vars

\* C6 witness: a Put was accepted by a key that was full of expired entries.
C6_Witness ==
    /\ last.op = "Put" /\ last.ok
    /\ Cardinality(last.shut) = maxIdlePerHost
    /\ LenForHost(last.key) = 1

\* ======================================================================
\* Claims about concurrent callers of the pool (checked under SpecConc)
\* ======================================================================

\* The steps a goroutine takes between p.mu.Lock() and p.mu.Unlock().
UnderLock == {"Get.cleanup", "Get.pop", "Put.cleanup", "Put.append"}

\* What goroutine t's Get returned, once it has returned.
Got(t) == IF pc[t] \in {"Test.afterGet", "Test.done"} THEN frame[t].retConn ELSE NilConn

\* C7: with goroutines putting their own connection and getting one under
\* one key, in every intermediate state the pool holds at most maxIdlePerHost
\* connections; a goroutine between Lock and Unlock holds the mutex alone and
\* the slice it loaded is still the pool's when it stores (its Put or Get is
\* not interleaved with another); and no connection is returned by two Gets
\* (each is put once), nor is a returned connection still idle in the pool.
C7_ConcurrentPutGet ==
    /\ PoolLen <= maxIdlePerHost
    /\ \A t \in Threads : pc[t] \in UnderLock => mu = t
    /\ \A t \in Threads : pc[t] \in {"Get.pop", "Put.append"} =>
           frame[t].loaded = Entries(conns, frame[t].key)
    /\ \A t1, t2 \in Threads : (t1 # t2 /\ Got(t1) # NilConn) => Got(t1) # Got(t2)
    /\ \A t \in Threads : Got(t) # NilConn => Got(t) \notin PoolConns(conns)

\* C7 witness: a goroutine is about to pop from a key holding two
\* connections while another one waits for the mutex to get one too.
C7_Witness ==
    \E t1, t2 \in Threads :
        /\ pc[t1] = "Get.pop" /\ Len(frame[t1].loaded) = 2
        /\ pc[t2] = "Get.lock"

\* ======================================================================
\* Claims about Client.Do (checked under SpecDo)
\* ======================================================================

\* Goroutine t is inside doConnWithPool: its connection is being written to
\* or read from, or doConnInternal has not handed it back yet.
InExchange(t) == pc[t] = "Do.exchange"

\* This step ends the exchange goroutine t was in.
Ended(t) == pc[t] = "Do.exchange" /\ pc'[t] # "Do.exchange"

\* C8: in every reachable state no connection is both an idle entry of the
\* pool and in use by an exchange, and no two exchanges use one connection; a
\* connection obtained from the pool leaves the pool in the step that hands
\* it out; and a connection enters the pool only in the step in which the
\* exchange that used it ends.
C8_NoConnIdleAndInUse ==
    /\ [](\A t \in Threads : InExchange(t) =>
            /\ frame[t].conn # NilConn
            /\ frame[t].conn \notin PoolConns(conns)
            /\ \A u \in Threads \ {t} : InExchange(u) => frame[u].conn # frame[t].conn)
    /\ [][\A t \in Threads :
            (pc[t] = "idle" /\ pc'[t] = "Do.exchange") =>
                /\ frame'[t].pooled
                /\ frame'[t].conn \in PoolConns(conns)
                /\ frame'[t].conn \notin PoolConns(conns')]_vars
    /\ [][\A c \in Conns :
            (c \notin PoolConns(conns) /\ c \in PoolConns(conns')) =>
                \E t \in Threads : Ended(t) /\ frame[t].conn = c]_vars

\* C8 witness: two goroutines are in an exchange, each on a connection it
\* took from the pool, while the pool holds a third connection idle.
C8_Witness ==
    \E t1, t2 \in Threads :
        /\ t1 # t2
        /\ InExchange(t1) /\ frame[t1].pooled
        /\ InExchange(t2) /\ frame[t2].pooled
        /\ PoolLen > 0

\* The texts that mark a stale connection.
StaleTexts == {"broken pipe", "connection reset", "use of closed network connection"}

\* A stale-connection error: EOF, or an error whose text contains one of the
\* stale texts.
StaleError(err) ==
    /\ ~err.nil
    /\ err.eof \/ \E text \in StaleTexts : Contains(err.text, text)

\* C9: a Do call never dials more than once nor writes the request more than
\* twice.  The exchange on a pooled connection never ends with Do returning a
\* stale-connection error: it ends with Do returning another error or none,
\* or with the retry, in which that connection is closed and not in the pool
\* and the call has dialed nothing and written once.  The dial of the retry
\* yields a connection never seen before; the exchange on a dialed connection
\* always ends with Do returning, after one dial and, in a retry, two writes.
C9_StaleRetryOnce ==
    /\ [](\A t \in Threads : frame[t].dials <= 1 /\ frame[t].writes <= 2)
    /\ [][\A t \in Threads :
            (Ended(t) /\ frame[t].pooled) =>
                \/ pc'[t] = "idle" /\ ~StaleError(frame'[t].err)
                \/ /\ pc'[t] = "Do.dial"
                   /\ frame[t].conn \in connClosed'
                   /\ frame[t].conn \notin PoolConns(conns')
                   /\ frame'[t].dials = 0
                   /\ frame'[t].writes = 1
                   /\ frame'[t].resets = 1]_vars
    /\ [][\A t \in Threads :
            (pc[t] = "Do.dial" /\ frame[t].resets = 1 /\ pc'[t] = "Do.exchange") =>
                /\ ~frame'[t].pooled
                /\ frame'[t].conn \notin 0..dialed
                /\ frame'[t].dials = 1]_vars
    /\ [][\A t \in Threads :
            (Ended(t) /\ ~frame[t].pooled) =>
                /\ pc'[t] = "idle"
                /\ frame'[t].dials = 1
                /\ frame'[t].resets = frame[t].resets
                /\ frame'[t].writes = frame[t].resets + 1]_vars

\* C9 witness: a Do call has returned success with a response after one
\* reset, one dial and two writes.
C9_Witness ==
    \E t \in Threads :
        /\ pc[t] = "idle"
        /\ frame[t].err.nil /\ frame[t].rawdata # ""
        /\ frame[t].resets = 1 /\ frame[t].dials = 1 /\ frame[t].writes = 2

\* C10: the exchange on a pooled connection is followed by a dial only when
\* it failed with a stale-connection error; when Do returns an error from
\* it, the error is one the connection produced and not a stale one, and the
\* call has dialed nothing, written the request once and not reset the
\* response.
C10_NonStaleReturned ==
    [][\A t \in Threads :
        (Ended(t) /\ frame[t].pooled) =>
            /\ pc'[t] = "Do.dial" => StaleError(frame'[t].err)
            /\ (pc'[t] = "idle" /\ ~frame'[t].err.nil) =>
                   /\ frame'[t].err \in WriteErrs \cup ReadErrs
                   /\ ~StaleError(frame'[t].err)
                   /\ frame'[t].dials = 0
                   /\ frame'[t].writes = 1
                   /\ frame'[t].resets = 0]_vars

\* C10 witness: a Do call has returned the Phase-1 timeout of the exchange
\* on a pooled connection, having dialed nothing and written once.
C10_Witness ==
    \E t \in Threads :
        /\ pc[t] = "idle"
        /\ frame[t].err = TimeoutErr
        /\ frame[t].dials = 0 /\ frame[t].writes = 1 /\ frame[t].resets = 0

\* ======================================================================
\* Claims about one call of Client.Do (checked under SpecCall)
\* ======================================================================

\* This step is the one in which doConnInternal has returned and the
\* connection is put or closed.
Finishes == pc[Caller] = "Finish" /\ pc'[Caller] # "Finish"

\* This step ends the exchange of DoHTTP/DoHTTPS: doConnWithPool returns.
FinishesPooling == Finishes /\ call.path = "http"

\* C11: when doConnWithPool returns, the connection has been offered to
\* pool.Put if and only if the exchange returned no error, the client has a
\* pool, DisableKeepAlive is false, req.WantsClose() and req.WantsUpgrade()
\* are false and resp.ConnectionClose() is false; it is an idle pool entry
\* only if it was offered, and it is either an idle pool entry or closed,
\* never both and never neither (so it is closed when it was not offered
\* and when Put returned false).
C11_PooledOrClosed ==
    [][FinishesPooling =>
        LET c == call.conn
            offered == frame'[Caller].puts = call.puts + 1
            idle == c \in PoolConns(conns')
        IN  /\ offered <=> /\ call.err.nil
                           /\ client.pool
                           /\ ~client.DisableKeepAlive
                           /\ ~call.wantsClose
                           /\ ~call.wantsUpgrade
                           /\ ~ConnectionClose(call.rawdata)
            /\ idle => offered
            /\ idle <=> c \notin connClosed']_vars

\* C11 witness: a call offered its connection to a pool that Client.Close
\* had closed meanwhile, and the connection was closed.
C11_Witness ==
    /\ pc[Caller] = "returned"
    /\ call.puts = 1 /\ call.err.nil
    /\ closed /\ PoolLen = 0
    /\ Cardinality(connClosed) = 1

\* The read loop has ended on the error of a Read and doConnInternal has
\* returned.
ReadLoopEnded == pc[Caller] = "Finish" /\ ~call.readErr.nil

\* C12: a read timeout after at least one response byte was received ends
\* the exchange with success, never with an error; resp.Rawdata holds
\* exactly the bytes received so far, in arrival order, at every turn of the
\* read loop and when it ends; and for a server that sends one byte and then
\* stays silent the exchange returns success with that byte present.
C12_QuietTimeoutEndsResponse ==
    /\ [](pc[Caller] \in {"Read", "Finish"} => call.rawdata = Concat(call.arrived))
    /\ []((ReadLoopEnded /\ isTimeoutError(call.readErr) /\ call.arrived # <<>>)
            => call.err.nil)
    /\ [][(Finishes /\ isTimeoutError(call.readErr) /\ call.arrived # <<>>)
            => pc'[Caller] = "returned" /\ frame'[Caller].err.nil]_vars

\* C12 witness: the server sent one byte, then nothing until the quiet
\* deadline passed, a tick after the request was written.
C12_Witness ==
    /\ ReadLoopEnded /\ isTimeoutError(call.readErr)
    /\ call.arrived = <<"H">> /\ call.rawdata = "H"
    /\ call.err.nil
    /\ now = call.writeTime + quietTimeout

\* C13: when the deadline writeTime + Timeout passes before any response
\* byte is received, the Read returns a timeout error and the exchange fails
\* with it; resp.Rawdata has received no byte; and the connection is closed
\* and not put into the pool, and Do returns the timeout error.
C13_FirstByteTimeoutFails ==
    /\ [][(/\ pc[Caller] = "Read" /\ pc'[Caller] # "Read"
           /\ call.arrived = <<>> /\ now >= call.writeTime + Timeout)
            => /\ isTimeoutError(frame'[Caller].readErr)
               /\ frame'[Caller].err = frame'[Caller].readErr
               /\ frame'[Caller].rawdata = ""]_vars
    /\ []((ReadLoopEnded /\ isTimeoutError(call.readErr) /\ call.arrived = <<>>)
            => /\ call.err = call.readErr
               /\ call.rawdata = ""
               /\ now >= call.writeTime + Timeout)
    /\ [][(Finishes /\ isTimeoutError(call.readErr) /\ call.arrived = <<>>)
            => /\ call.conn \in connClosed'
               /\ call.conn \notin PoolConns(conns')
               /\ conns' = conns
               /\ pc'[Caller] = "returned"
               /\ frame'[Caller].err = call.readErr]_vars

\* C13 witness: a connection taken from the pool stayed silent until the
\* deadline.
C13_Witness ==
    /\ ReadLoopEnded /\ isTimeoutError(call.readErr)
    /\ call.arrived = <<>> /\ call.pooled
    /\ call.err = TimeoutErr

\* C14: what follows an EOF depends only on whether bytes were received in
\* this exchange.  EOF before any byte makes the exchange fail with EOF: on
\* a connection from the pool the call then closes it, resets the response
\* and dials, on a dialed connection Do returns EOF.  EOF after at least one
\* byte ends the exchange with success and Do returns nil.
C14_EOFByReceivedData ==
    /\ []((ReadLoopEnded /\ call.readErr.eof)
            => IF call.arrived = <<>> THEN call.err = IoEOF ELSE call.err.nil)
    /\ [][(Finishes /\ call.readErr.eof /\ call.arrived = <<>>)
            => IF call.pooled
               THEN /\ pc'[Caller] = "Dial"
                    /\ frame'[Caller].resets = call.resets + 1
                    /\ frame'[Caller].rawdata = ""
                    /\ call.conn \in connClosed'
               ELSE /\ pc'[Caller] = "returned"
                    /\ frame'[Caller].err = IoEOF]_vars
    /\ [][(Finishes /\ call.readErr.eof /\ call.arrived # <<>>)
            => pc'[Caller] = "returned" /\ frame'[Caller].err.nil]_vars

\* C14 witness: a connection taken from the pool gave EOF before any byte
\* and the call is about to dial.
C14_Witness ==
    /\ pc[Caller] = "Dial"
    /\ call.err = IoEOF /\ call.resets = 1
    /\ call.gets = 1 /\ call.dials = 0

\* This step is Do up to its dispatch: it returns, or goes on in DoProxy,
\* DoWithProxy, DoHTTPS or DoHTTP.
Dispatches == pc[Caller] = "Do" /\ pc'[Caller] # "Do"

\* Do has returned err without any effect: it made no call of Get, Put or
\* Dial and no Write, the pool and the connections are as they were, and
\* the response has no byte.
ReturnsUntouched(err) ==
    LET after == frame'[Caller]
    IN  /\ pc'[Caller] = "returned"
        /\ after.err = err
        /\ after.gets = 0 /\ after.puts = 0 /\ after.dials = 0
        /\ after.prefaces = 0 /\ after.writes = 0
        /\ after.rawdata = ""
        /\ conns' = conns /\ connClosed' = connClosed /\ dialed' = dialed

\* The URL has no scheme (no colon): it parses and is not absolute.
HasNoScheme(u) == Index(u, ":") = -1

\* C15: Do on a request whose URL is not absolute returns InvalidURL and has
\* no other effect: no connection is dialed, no pool Get or Put is
\* performed, the pool contents are unchanged and no byte is written or
\* added to the response, whatever the client and the request bytes are.
C15_RelativeURLRejected ==
    [][(Dispatches /\ HasNoScheme(call.url)) => ReturnsUntouched(InvalidURLError)]_vars

\* C15 witness: Do returned InvalidURL for the relative URL while the pool
\* held an idle connection.
C15_Witness ==
    /\ pc[Caller] = "returned"
    /\ call.url = "/path/only"
    /\ call.err = InvalidURLError /\ call.dials = 0
    /\ PoolLen = 1

\* The URL is absolute with a scheme other than http and https.
HasUnknownScheme(u) ==
    LET i == Index(u, ":")
    IN  i > 0 /\ ToLower(SubSeq(u, 1, i)) \notin {"http", "https"}

\* C16: for every request whose absolute URL has a scheme other than http or
\* https, Do fails with InvalidURL without dialing any connection, whether
\* or not a proxy URI is configured and whatever the request bytes are.
C16_UnknownSchemeRejected ==
    [][(Dispatches /\ HasUnknownScheme(call.url))
          => ReturnsUntouched(InvalidURLError)]_vars

\* C16, the part the code keeps: without a proxy URI and for request bytes
\* that do not begin with "CONNECT ", an unknown scheme is rejected.
C16_UnknownSchemeRejectedDirect ==
    [][(/\ Dispatches /\ HasUnknownScheme(call.url)
        /\ client.proxyURI = "" /\ ~HasPrefix(call.req.rawdata, "CONNECT "))
          => ReturnsUntouched(InvalidURLError)]_vars

\* C16 witness: a client with a proxy URI is about to dial the proxy for a
\* request with an ftp URL.
C16_Witness ==
    /\ pc[Caller] = "httpProxy.dial"
    /\ call.url = "ftp://a.test/f"
    /\ client.proxyURI # ""

\* This step is a step of the call in progress.
CallSteps == pc[Caller] # "idle" /\ pc'[Caller] # pc[Caller]

\* C17: with DisableKeepAlive set, a call of Do performs no pool Get and no
\* pool Put, never holds a connection from the pool, goes from the dispatch
\* straight to a Dial, exchanges only on the connection it dialed, closes
\* that connection when the exchange ends and returns, and none of its
\* steps changes the pool's contents.
C17_DisableKeepAliveBypassesPool ==
    /\ []((client.DisableKeepAlive /\ pc[Caller] # "idle")
            => /\ call.gets = 0 /\ call.puts = 0
               /\ ~call.pooled
               /\ pc[Caller] # "Get"
               /\ pc[Caller] \in {"Write", "Read", "Finish"}
                      => call.dials = 1 /\ call.conn \notin PoolConns(conns))
    /\ [][(client.DisableKeepAlive /\ CallSteps) => conns' = conns]_vars
    /\ [][(client.DisableKeepAlive /\ Finishes)
            => /\ call.conn \in connClosed'
               /\ pc'[Caller] = "returned"]_vars

\* C17 witness: with DisableKeepAlive set, a call dialed, exchanged and
\* returned nil while the pool held an idle connection.
C17_Witness ==
    /\ client.DisableKeepAlive
    /\ pc[Caller] = "returned"
    /\ call.err.nil /\ call.dials = 1 /\ call.writes = 1
    /\ PoolLen = 1
    /\ Cardinality(connClosed) = 1

\* C18: a request with an absolute URL whose bytes, as Do tests them (after
\* ParseRawdata and TransformRequestFunc), begin with "CONNECT " and contain
\* no CRLF CRLF makes Do fail with InvalidRequest before any connection is dialed and
\* before any byte is written.
C18_ConnectWithoutSeparator ==
    [][(/\ Dispatches
        /\ Index(call.url, ":") > 0
        /\ HasPrefix(preparedRawdata[call.req], "CONNECT ")
        /\ ~Contains(preparedRawdata[call.req], CRLF \o CRLF))
          => ReturnsUntouched(InvalidRequestError)]_vars

\* C18 witness: Do returned InvalidRequest for a CONNECT request line with
\* no blank line behind it, sent by a client with a proxy URI.
C18_Witness ==
    /\ pc[Caller] = "returned"
    /\ call.err = InvalidRequestError
    /\ call.req.rawdata = "CONNECT a.test:80 HTTP/1.1\r\n"
    /\ client.proxyURI # ""
    /\ call.dials = 0 /\ dialed = 0

\* The proxy's answer to the CONNECT has a status other than 200 (the status
\* code is what follows "HTTP/1.1 ").
AnswersNon200(answer) == answer # "" /\ SubSeq(answer, 10, 12) # "200"

\* Do failed with a tunnel error.
IsTunnelError(err) ==
    \/ HasPrefix(err.text, "can not connect to proxy")
    \/ HasPrefix(err.text, "Connect server using proxy error")

\* This step is the Read of the answer to the CONNECT.
ReadsAnswer ==
    /\ pc[Caller] \in {"DoProxy.read", "httpProxy.read"}
    /\ pc'[Caller] # pc[Caller]

\* C19: on both tunnel paths, when the proxy answers the CONNECT with a
\* status other than 200, Do fails with a tunnel error and no byte of the
\* inner request is written on that connection.
C19_Non200FailsTunnel ==
    [][(ReadsAnswer /\ AnswersNon200(frame'[Caller].n))
          => /\ pc'[Caller] = "returned"
             /\ IsTunnelError(frame'[Caller].err)
             /\ frame'[Caller].writes = 0]_vars

\* C19, the part the code keeps: on the configured-proxy path a status other
\* than 200 makes Do fail with a tunnel error, nothing of the inner request
\* is written and the connection is closed.
C19_Non200FailsProxyDialer ==
    [][(ReadsAnswer /\ pc[Caller] = "httpProxy.read"
        /\ AnswersNon200(frame'[Caller].n))
          => /\ pc'[Caller] = "returned"
             /\ IsTunnelError(frame'[Caller].err)
             /\ frame'[Caller].writes = 0
             /\ call.conn \in connClosed']_vars

\* C19 witness: DoProxy read a 403 answer and is about to write the inner
\* request on the connection.
C19_Witness ==
    /\ pc[Caller] = "Write"
    /\ call.path = "tunnel"
    /\ AnswersNon200(call.n)
    /\ call.writes = 0

\* C20: on the configured-proxy path the bytes that arrived behind the head
\* of the proxy's 200 answer are not lost: the first Read of the exchange
\* yields them, and when the exchange ends in success resp.Rawdata holds
\* every byte that arrived after the head, once and in order (what the
\* handshake's reader had buffered, then what the Reads delivered).
C20_BufferedBytesRetained ==
    /\ [][(/\ pc[Caller] = "Read" /\ call.path = "proxy"
           /\ call.reads = 0 /\ call.buffered # ""
           /\ frame'[Caller].reads = 1)
            => frame'[Caller].n = call.buffered]_vars
    /\ []((pc[Caller] = "Finish" /\ call.path = "proxy" /\ call.err.nil)
            => call.rawdata = call.buffered \o Concat(call.arrived))

\* C20, the part the code keeps: when the proxy's answer came alone in its
\* segment, resp.Rawdata holds every byte that arrived after it.
C20_BytesRetainedWhenAnswerAlone ==
    (/\ pc[Caller] = "Finish" /\ call.path = "proxy" /\ call.err.nil
     /\ call.buffered = "")
        => call.rawdata = Concat(call.arrived)

\* C20 witness: the proxy sent its 200 answer and the first byte of the
\* response in one segment, the rest of the head came in the next, and the
\* exchange ended in success with a response that lacks its first byte.
C20_Witness ==
    /\ pc[Caller] = "Finish" /\ call.path = "proxy" /\ call.err.nil
    /\ call.buffered = "H"
    /\ call.arrived = <<"TTP/1.1 200 OK\r\n\r\n">>
    /\ call.rawdata = "TTP/1.1 200 OK\r\n\r\n"

\* ======================================================================
\* Further claims about one call of Client.Do (checked under SpecCall)
\* ======================================================================

\* The last element of a sequence that is not empty.
Last(s) == s[Len(s)]

\* This step is the return of a conn.Write of doConnInternal that wrote
\* nothing.
WriteFails ==
    /\ pc[Caller] = "Write" /\ pc'[Caller] # "Write"
    /\ frame'[Caller].written = call.written

\* This step is the return of a conn.Read of the read loop.
ReadReturns ==
    \/ frame'[Caller].reads > call.reads
    \/ ~frame'[Caller].readErr.nil /\ frame'[Caller].readErr # call.readErr

\* C23: no Read is issued on a connection before the request has been
\* written on it in full: the read loop runs only after a Write of
\* req.Bytes() on the connection in hand, and a handshake Read only after
\* the Write of the CONNECT request; when the Write fails doConnInternal
\* returns the Write's error at once, without a Read and with nothing
\* appended to the response.
C23_WriteBeforeRead ==
    /\ []((pc[Caller] = "Read" \/ call.reads > 0 \/ call.rawdata # "")
            => /\ pc[Caller] \in {"Read", "Finish"}
               /\ call.written # <<>>
               /\ Last(call.written) = call.reqBytes
               /\ call.reqBytes # "")
    /\ [](pc[Caller] \in {"DoProxy.read", "httpProxy.read"} => call.prefaces = 1)
    /\ [][ReadReturns => pc[Caller] = "Read"]_vars
    /\ [][WriteFails =>
            /\ pc'[Caller] = "Finish"
            /\ frame'[Caller].err \in WriteErrs
            /\ frame'[Caller].reads = 0 /\ frame'[Caller].readErr.nil
            /\ frame'[Caller].rawdata = "" /\ frame'[Caller].arrived = <<>>]_vars

\* C23 witness: the Write on a connection taken from the pool has failed;
\* doConnInternal has returned its error, no Read was issued and the
\* response is empty.
C23_Witness ==
    /\ pc[Caller] = "Finish"
    /\ call.pooled
    /\ call.err \in WriteErrs
    /\ call.writes = 1 /\ call.written = <<>>
    /\ call.reads = 0 /\ call.readErr.nil /\ call.rawdata = ""

\* The smaller of two numbers.
Min(a, b) == IF a < b THEN a ELSE b

\* The quiet timeout the read loop is to use: the client's, or the default
\* one when the client's is 0.
QuietOrDefault ==
    IF client.QuietTimeout = 0 THEN DefaultQuietTimeout ELSE client.QuietTimeout

Tunnelling ==
    /\ call.path = "tunnel"
    /\ pc[Caller] \in {"DoProxy.read", "Write", "Read", "Finish"}

\* The call runs in DoProxy, behind the handshake and the Write of
\* doConnInternal.
TunnelledWrite == call.path = "tunnel" /\ pc[Caller] = "Read"

\* The first chunk of the request DoProxy split, with its CRLF CRLF.
Preface == call.parts[1] \o CRLF \o CRLF

\* What follows the first CRLF CRLF of the request DoProxy split.
Remainder == Join(Tail(call.parts), CRLF \o CRLF)

\* C26 as stated: in the CONNECT-prefixed path the preface is written once,
\* before the handshake Read, and after the handshake the bytes written on
\* the same connection are exactly the remainder of the request behind its
\* first CRLF CRLF.
C26_InnerLegIsRemainder ==
    /\ Tunnelling => call.prefaces = 1 /\ call.written[1] = Preface
    /\ TunnelledWrite => call.written = <<Preface, Remainder>>

\* C26, the part that holds: the preface is written once, before the
\* handshake Read, and nothing else is written before that Read; after the
\* handshake there is one more Write on the same connection, of req.Bytes(),
\* which ends with the remainder.
C26_PrefaceWrittenOnce ==
    /\ Tunnelling => call.prefaces = 1 /\ call.written[1] = Preface
    /\ (call.path = "tunnel" /\ pc[Caller] \in {"DoProxy.read", "Write"})
          => call.written = <<Preface>>
    /\ TunnelledWrite =>
          /\ call.written = <<Preface, call.reqBytes>>
          /\ HasSuffix(call.reqBytes, Remainder)

\* C26 witness: behind the handshake the request line of the CONNECT has
\* been written again, in front of the inner request.
C26_Witness ==
    /\ TunnelledWrite
    /\ call.written
         = <<"CONNECT a.test:80 HTTP/1.1\r\n\r\n",
             "CONNECT a.test:80 HTTP/1.1\r\n\r\n\r\nGET / HTTP/1.1\r\n\r\n">>

\* The caller holds a connection that it took from the pool or dialed.
CheckedOut == call.conn # NilConn

\* Client.Close takes a step: the pool becomes closed.
PoolCloses == ~closed /\ closed'

\* doConnWithPool calls Put in the step that leaves Finish.
PutAttempted == frame'[Caller].puts = call.puts + 1

\* C27: CloseAll during an exchange neither closes the connection checked
\* out nor changes anything of the exchange (its position, its deadlines,
\* what it has received); no connection is closed while its exchange writes
\* or reads; when the exchange then ends on the closed pool, the Put that a
\* reusable connection gets is refused, the connection is closed, and the
\* pool holds nothing.
C27_CloseAllSparesCheckedOut ==
    /\ [](pc[Caller] \in {"Write", "Read"} => call.conn \notin connClosed)
    /\ [](closed => conns = EmptyMap)
    /\ [][/\ (PoolCloses /\ CheckedOut) =>
                /\ call.conn \notin connClosed'
                /\ call.conn \notin PoolConns(conns)
                /\ pc' = pc /\ frame' = frame /\ now' = now
          /\ (Finishes /\ closed) =>
                /\ call.conn \in connClosed'
                /\ conns' = EmptyMap
                /\ (call.path = "http" /\ canReuse(call, call.err))
                      => PutAttempted]_vars

\* C27 witness: Do returned success on a connection it took from the pool,
\* which was closed meanwhile: the Put was made and refused, the connection
\* is closed and the pool is empty.
C27_Witness ==
    /\ pc[Caller] = "returned"
    /\ call.err.nil
    /\ call.gets = 1 /\ call.dials = 0 /\ call.puts = 1
    /\ closed
    /\ conns = EmptyMap
    /\ connClosed # {}

\* DoHTTP/DoHTTPS goes from the return of doConnWithPool to the stale retry.
Retries == Finishes /\ frame'[Caller].resets = call.resets + 1

\* The call is in its attempt on the fresh connection of a stale retry.
InRetry == call.resets > 0 /\ pc[Caller] \in {"Dial", "Write", "Read", "Finish"}

\* C28: Reset turns a response with every field set into what NewResponse
\* gives; the stale retry leaves the response empty with both timings 0
\* before the fresh attempt, whatever the stale attempt had received; and
\* during and after the fresh attempt resp.Rawdata holds exactly the bytes
\* that arrived on the fresh connection, and the timings are 0 while none
\* arrived and otherwise count from the Write on the fresh connection.
C28_RetryStartsFromReset ==
    /\ [](Reset(ParsedResponse) = NewResponse)
    /\ [][Retries =>
            /\ frame'[Caller].rawdata = NewResponse.Rawdata
            /\ frame'[Caller].TimeToFirstByte = NewResponse.TimeToFirstByte
            /\ frame'[Caller].TimeToLastByte = NewResponse.TimeToLastByte
            /\ frame'[Caller].arrived = <<>>
            /\ call.conn \in connClosed']_vars
    /\ [](InRetry =>
            /\ call.rawdata = Concat(call.arrived)
            /\ call.arrived = <<>>
                 => call.TimeToFirstByte = 0 /\ call.TimeToLastByte = 0
            /\ call.arrived # <<>>
                 => /\ call.TimeToFirstByte <= call.TimeToLastByte
                    /\ call.writeTime + call.TimeToLastByte <= now)

\* C28 witness: the fresh attempt of a call that retried has ended in
\* success one tick after its Write, with one segment in the response.
C28_Witness ==
    /\ pc[Caller] = "Finish"
    /\ call.resets = 1 /\ call.gets = 1 /\ call.dials = 1
    /\ call.err.nil
    /\ Len(call.arrived) = 1 /\ call.rawdata = call.arrived[1]
    /\ call.writeTime = 1
    /\ call.TimeToFirstByte = 1 /\ call.TimeToLastByte = 1

\* The first line of a buffer: what stands before its first line ending.
FirstLine(buf) == Split(Split(buf, "\n")[1], "\r")[1]

\* The number of pieces of a line: its runs of bytes other than the space.
RECURSIVE PieceCount(_)
PieceCount(line) ==
    IF Len(line) = 0 THEN 0
    ELSE IF SubSeq(line, 1, 1) = " " THEN PieceCount(SubSeq(line, 2, Len(line)))
    ELSE IF Len(line) = 1 \/ SubSeq(line, 2, 2) = " "
         THEN 1 + PieceCount(SubSeq(line, 2, Len(line)))
         ELSE PieceCount(SubSeq(line, 2, Len(line)))

\* The number of pieces of each request's first line, computed once.
pieceCount == [r \in RawRequests |-> PieceCount(FirstLine(r.rawdata))]

\* What the parse is to return for each request, computed once: no error
\* for a request line of three pieces, "invalid HTTP line" otherwise.
malformedError ==
    [r \in RawRequests |->
        IF pieceCount[r] = 3 THEN NilErr
        ELSE NewError("invalid HTTP line: " \o FirstLine(r.rawdata))]

\* The request line of the call's request does not have three pieces.
Malformed == call.req # <<>> /\ pieceCount[call.req] # 3

\* Do goes past its tests of the URL with the request it was given.
DoTakesRequest ==
    /\ pc[Caller] = "Do" /\ pc'[Caller] # "Do"
    /\ parsedURL[call.url].err.nil /\ IsAbs(parsedURL[call.url])

\* C32 as stated: Do returns the error of the parse for a request whose
\* request line does not have three pieces, without a Dial, a pool call or
\* a Write.
C32_ParseErrorSurfaces ==
    [][(DoTakesRequest /\ Malformed)
          => ReturnsUntouched(parseError[call.req])]_vars

\* C32, the part that holds: ParseRawdata returns the error "invalid HTTP
\* line" exactly for the requests whose request line does not have three
\* pieces.  Do drops that error: it dispatches on the request as on any
\* other (returning InvalidURL for a scheme it does not know), and what the
\* call returns is never the error of the parse.
C32_ParseErrorDropped ==
    /\ [](parseError = malformedError)
    /\ [][(DoTakesRequest /\ Malformed)
            => IF pc'[Caller] = "returned"
               THEN /\ frame'[Caller].err = InvalidURLError
                    /\ parsedURL[call.url].Scheme \notin {"http", "https"}
               ELSE /\ pc'[Caller] \in {"Get", "Dial", "httpProxy.dial"}
                    /\ frame'[Caller].reqBytes = "  \r\n\r\n\r\n"]_vars
    /\ [](call.err.nil \/ \A r \in RawRequests : call.err # malformedError[r])

\* C32 witness: the request "GET /" was dialed for and written, as a request
\* line of two spaces.
C32_Witness ==
    /\ pc[Caller] = "Read"
    /\ call.dials = 1 /\ call.writes = 1
    /\ call.written = <<"  \r\n\r\n\r\n">>

\* Do returns in this step.
DoReturns == pc[Caller] # "returned" /\ pc'[Caller] = "returned"

\* DoProxy is between its Dial and its call of DoConn.
InDoProxyHandshake == pc[Caller] \in {"DoProxy.write", "DoProxy.read"}

\* C34 as stated: when Do has returned, every connection that was dialed is
\* closed or is an idle entry of the pool.
C34_EveryConnClosedOrPooled ==
    pc[Caller] \in {"returned", "idle"}
        => \A c \in 1..dialed : c \in connClosed \/ c \in PoolConns(conns)

\* C34, the part that holds: when Do returns from anywhere but DoProxy's
\* handshake (its Write of the CONNECT request and its Read of the answer),
\* the connection it held is closed or is an idle entry of the pool; the
\* stale retry closes the connection it gives up; a Dial that fails has
\* created no connection.
C34_ClosedOrPooledOutsideDoProxy ==
    /\ [][(DoReturns /\ call.conn # NilConn /\ ~InDoProxyHandshake)
            => call.conn \in connClosed' \cup PoolConns(conns')]_vars
    /\ [][Retries => call.conn \in connClosed']_vars
    /\ [][(DoReturns /\ call.conn = NilConn) => dialed' = dialed]_vars
    /\ [](pc[Caller] \in {"returned", "idle"} => call.conn = NilConn)

\* C34 witness: Do has returned an error after a stale retry whose Dial
\* succeeded; both connections of the call are closed.
C34_Witness ==
    /\ pc[Caller] = "returned"
    /\ call.resets = 1 /\ call.gets = 1 /\ call.dials = 1
    /\ ~call.err.nil
    /\ dialed = 2
    /\ connClosed = {1, 2}

\* C36 as stated: the stale retry of DoHTTP/DoHTTPS happens only when the
\* pooled attempt ended before any response byte arrived, so a request is
\* not written again once bytes of its response were received.
C36_NoRetryAfterResponseBytes ==
    [][Retries => call.arrived = <<>> /\ call.rawdata = ""]_vars

\* C36, the part that holds: the retry is taken at most once in a call, only
\* after an attempt on a connection from the pool that returned an error
\* isStaleConnError accepts; when bytes had arrived in that attempt the
\* error is the one of the last Read, neither a timeout nor io.EOF (which
\* end a response that has begun); and the attempt on the fresh connection
\* is not retried.
C36_RetryOnlyOnStalePooled ==
    /\ [][Retries =>
            /\ call.pooled /\ call.resets = 0
            /\ staleConnError[call.err]
            /\ call.arrived # <<>> =>
                /\ call.err = call.readErr
                /\ ~isTimeoutError(call.readErr) /\ ~call.readErr.eof]_vars
    /\ [](call.resets <= 1)
    /\ [][(Finishes /\ ~call.pooled) => DoReturns]_vars

\* C36 witness: the request has been written on the fresh connection of a
\* retry: the second Write of the call, after the one of the attempt on the
\* pooled connection, succeeded.
C36_Witness ==
    /\ pc[Caller] = "Read"
    /\ call.resets = 1 /\ call.writes = 2
    /\ call.written = <<call.reqBytes>>
    /\ ~call.pooled

\* ======================================================================
\* Claims about termination (checked under SpecCallLive)

\* The caller is inside doConnInternal, or in DoHTTP/DoHTTPS.
Exchanging ==
    \/ pc[Caller] \in {"Write", "Read", "Finish"}
    \/ call.path = "http"

\* C25 as stated: every call of Do eventually returns.
C25_EveryDoReturns == (pc[Caller] = "Do") ~> (pc[Caller] = "returned")

\* C25, the part that holds: a read loop that was entered ends, whatever the
\* server sends and however long it keeps sending, so doConnInternal
\* returns; a call that has reached doConnInternal, or that runs in DoHTTP
\* or DoHTTPS, returns.
C25_ExchangeEnds ==
    /\ (pc[Caller] = "Read") ~> (pc[Caller] = "Finish")
    /\ Exchanging ~> (pc[Caller] = "returned")

\* C25 witness: the server sent a segment in the tick of the Write and one
\* in the next tick, each within the quiet timeout of the one before; the
\* read loop ended at the absolute deadline, in success.
C25_Witness ==
    /\ pc[Caller] = "Finish"
    /\ call.err.nil
    /\ isTimeoutError(call.readErr)
    /\ call.reads = 2
    /\ call.TimeToFirstByte = 0 /\ call.TimeToLastByte = 1
    /\ now = call.absoluteDeadline
    /\ now = call.writeTime + Timeout

\* ======================================================================
\* Further claims about the pool's API (checked under Spec)
\* ======================================================================

\* C30 as stated: in every reachable state every key present in the pool's
\* map has a non-empty sequence of entries, so a Get(k) that pops the last
\* entry of k leaves k absent from the map.
C30_NoEmptyKey == \A k \in DOMAIN conns : Len(conns[k]) > 0

\* C30, the part that holds: a key is left in the map with no entries only
\* by a Get of that key that returned its last entry (p.conns[key] =
\* conns[:n] with n = 0); no other call empties a key without deleting it,
\* and such a key counts for nothing in LenForHost and Len.
C30_EmptyKeyOnlyAfterPop ==
    /\ [](\A k \in DOMAIN conns : conns[k] = <<>> => LenForHost(k) = 0)
    /\ [][\A k \in DOMAIN conns' :
            conns'[k] = <<>> =>
                \/ k \in DOMAIN conns /\ conns[k] = <<>>
                \/ CallOf("Get") /\ last'.key = k /\ last'.ok]_vars

\* C30 witness: a Get has just returned the only entry of its key, and the
\* key is still in the map, with no entries.
C30_Witness ==
    /\ last.op = "Get" /\ last.ok
    /\ last.key \in DOMAIN conns
    /\ conns[last.key] = <<>>

\* C33: a Put(k, conn) of a connection on an open pool closes and removes
\* every entry of k that has been idle for idleTimeout or longer, whatever
\* it returns, and tests the capacity on the entries that remain: it returns
\* true exactly when fewer than maxIdlePerHost of them remain.  On a key full
\* of expired entries it returns true and leaves conn as the key's only
\* entry.  The entries of the other keys stay as they were and none of their
\* connections is closed.
C33_PutEvictsBeforeCapacity ==
    [][(CallOf("Put") /\ last'.conn # NilConn /\ ~closed) =>
        LET k == last'.key
            before == Entries(conns, k)
            after == Entries(conns', k)
        IN  /\ TooLongIdle(before) \subseteq connClosed'
            /\ TooLongIdle(before) \cap PoolConns(conns') = {}
            /\ connClosed' \ connClosed = TooLongIdle(before)
            /\ last'.ok <=> Len(Fresh(before)) < maxIdlePerHost
            /\ (Len(before) >= maxIdlePerHost /\ Fresh(before) = <<>>)
                  => /\ last'.ok
                     /\ Len(after) = 1
                     /\ after[1].conn = last'.conn
            /\ \A k2 \in (Keys \cup DOMAIN conns) \ {k} :
                   Entries(conns', k2) = Entries(conns, k2)]_vars

\* C33 witness: a key held two entries, its capacity, both expired; the Put
\* closed both and was accepted, and the key holds the new entry alone.
C33_Witness ==
    /\ last.op = "Put" /\ last.ok
    /\ maxIdlePerHost = 2
    /\ Cardinality(last.shut) = 2
    /\ last.shut \subseteq connClosed
    /\ conns[last.key] = <<[conn |-> last.conn, idleAt |-> now]>>

\* ======================================================================
\* Claims about goroutines in DoHTTP (checked under SpecHttp)
\* ======================================================================

\* The steps of DoHTTP that block on the network: the Dial (with the TLS
\* handshake) and the Write and Reads of doConnInternal.
Blocking == {"Http.dial", "Http.exchange"}

\* C31: a goroutine that dials, or writes to or reads from a connection,
\* does not hold the pool's mutex; whoever holds the mutex is between the
\* Lock and the Unlock of a Get or Put, in steps that only work on the
\* pool's map; and while a goroutine is in such a blocking step, the mutex
\* is free or held by another goroutine that is in those steps.
C31_NoIOUnderMutex ==
    /\ \A t \in Threads : pc[t] \in Blocking => mu # t
    /\ mu # NoThread => pc[mu] \in UnderLock
    /\ \A t \in Threads : pc[t] \in UnderLock => mu = t

\* C31 witness: goroutine 1 is in the exchange on a connection it took from
\* the pool while goroutine 2 holds the mutex inside its Put.
C31_Witness ==
    /\ pc[1] = "Http.exchange" /\ frame[1].pooled
    /\ pc[2] = "Put.append" /\ mu = 2

\* The connections goroutines hold between taking them (from Get or Dial)
\* and giving them up.
HeldConns == {frame[t].conn : t \in Threads} \ {NilConn}

\* C40: whatever the interleaving of the goroutines in DoHTTP with Close and
\* CloseIdleConnections, no idle entry of the pool is a closed connection;
\* a step that closes connections closes none that is an idle entry
\* afterwards; and a connection Get has handed out is not closed.
C40_NoClosedIdleEntry ==
    /\ [](PoolConns(conns) \cap connClosed = {})
    /\ [][\A c \in connClosed' \ connClosed :
            /\ c \notin PoolConns(conns')
            /\ c \in PoolConns(conns) \cup HeldConns]_vars
    /\ [](\A t \in Threads :
            pc[t] = "Http.afterGet" => frame[t].retConn \notin connClosed)

\* C40 witness: goroutine 1 is back from a Put that was refused and is about
\* to close its connection, while the pool holds the connection of
\* goroutine 2 as an idle entry and an earlier connection is closed.
C40_Witness ==
    /\ pc[1] = "Http.afterPut" /\ ~frame[1].retOk
    /\ frame[1].conn \notin connClosed
    /\ PoolConns(conns) # {}
    /\ connClosed # {}
    /\ ~closed

\* ======================================================================
\* Claims about DoHTTP and its servers (checked under SpecNet)
\* ======================================================================

\* The locals of the caller of SpecNet.
netCall == frame[Caller]

\* The caller holds a connection, from the pool or dialed.
HoldsConn == pc[Caller] \in {"Net.write", "Net.read", "Net.finish"}

\* The address the request of the call in progress would dial.
WouldDial == Addr(netCall.host, netCall.ip, DefaultPort("http"))

\* C35 as stated: every byte appended to resp.Rawdata during an exchange
\* was sent by the server after the request of this exchange was written,
\* also on a connection taken from the pool.
C35_NoEarlierBytes ==
    HoldsConn => netCall.early = ""

\* C35, the part that holds: on a freshly dialed connection every byte of
\* resp.Rawdata was sent after the request was written; on a connection
\* from the pool the bytes sent before it are read first, as they waited
\* on the connection: they are the start of resp.Rawdata; and a connection
\* that is dialed has nothing unread before its first request is written.
C35_EarlierBytesOnlyFromPool ==
    HoldsConn =>
        /\ ~netCall.pooled => netCall.early = ""
        /\ HasPrefix(netCall.rawdata, netCall.early)
        /\ (pc[Caller] = "Net.write" /\ ~netCall.pooled)
              => network[netCall.conn].unread = <<>>

\* C35 witness: an exchange on a connection from the pool has ended in
\* success, and all of its resp.Rawdata is a chunk the server had sent
\* before the request was written.
C35_Witness ==
    /\ pc[Caller] = "Net.finish"
    /\ netCall.pooled /\ netCall.err.nil
    /\ netCall.rawdata = "HTTP/1.1 200 OK\r\n\r\n"
    /\ netCall.early = netCall.rawdata

\* C37 as stated: a connection taken from the pool for a request was dialed
\* to the address the request would dial fresh, req.Addr(port).
C37_PooledConnDialedToAddr ==
    (HoldsConn /\ netCall.pooled) => network[netCall.conn].addr = WouldDial

\* C37, the part that holds: the connection in hand was dialed for a
\* request with the same pool key, that is the same scheme, URL host and
\* port; a freshly dialed one was dialed to req.Addr(port), a pooled one to
\* the address one of the IP overrides gives with the host and port of the
\* request; and every idle entry stands under the key it was dialed for.
C37_PooledConnDialedForKey ==
    /\ HoldsConn =>
          /\ network[netCall.conn].key = netCall.key
          /\ ~netCall.pooled => network[netCall.conn].addr = WouldDial
          /\ network[netCall.conn].addr
                \in {Addr(netCall.host, ip, DefaultPort("http")) : ip \in IPs}
    /\ \A k \in DOMAIN conns :
          \A c \in ConnsOf(conns[k]) : network[c].key = k

\* C37 witness: a request for a.test with the IP override 10.0.0.9 has been
\* written on a connection from the pool that was dialed to a.test:80.
C37_Witness ==
    /\ pc[Caller] = "Net.read"
    /\ netCall.pooled
    /\ netCall.host = "a.test" /\ netCall.ip = "10.0.0.9"
    /\ network[netCall.conn].addr = "a.test:80"

\* ======================================================================
\* Claims about requests and responses (checked under SpecMsg)
\* ======================================================================

\* What the caller of SpecMsg holds.
msg == frame[Caller]

\* The lines of a buffer's head: what stands before the first blank line,
\* cut at the line endings (CRLF or LF).
HeadLines(buf) ==
    Split(Split(ReplaceAll(buf, "\r", ""), "\n\n")[1], "\n")

\* The header names of a buffer, in order: of each line of the head after
\* the first, what stands before the first colon.
HeaderNamesOf(buf) ==
    LET lines == Tail(HeadLines(buf))
    IN  [i \in 1..Len(lines) |-> Split(lines[i], ":")[1]]

\* Bytes has been called on a request that parsed.
Emitted == pc[Caller] = "emitted"

\* Among the names there is a repeated one, at index i (counted from 0),
\* behind a name that reads, case apart, "<that name>_<i>".
SuffixClash(names) ==
    \E i \in 1..Len(names) :
        /\ \E e \in 1..(i - 1) : ToLower(names[e]) = ToLower(names[i])
        /\ \E j \in 1..(i - 1) :
              ToLower(names[j]) = ToLower(names[i]) \o "_" \o Itoa(i - 1)

\* C21 as stated: for every request buffer R that parses, ParseRawdata
\* followed by Bytes() emits the header names of R, each as often and in
\* the same order as in R, whatever the names are.
C21_HeaderNamesKept ==
    Emitted => /\ ~msg.out.panic
               /\ HeaderNamesOf(msg.out.bytes) = HeaderNamesOf(msg.raw)

\* C21, the part that holds: the names are emitted as often and in the same
\* order as in R unless R repeats a name at index i behind a header named
\* "<name>_<i>"; repeated names and such names without that coincidence are
\* kept.
C21_HeaderNamesKeptWithoutClash ==
    (Emitted /\ ~SuffixClash(HeaderNamesOf(msg.raw))) =>
        /\ ~msg.out.panic
        /\ HeaderNamesOf(msg.out.bytes) = HeaderNamesOf(msg.raw)

\* C21 witness: Bytes was called right after ParseRawdata on the request
\* with the headers Cookie_2, Cookie and cookie, and panicked.
C21_Witness ==
    /\ Emitted
    /\ msg.transform = ""
    /\ HeaderNamesOf(msg.raw) = <<"Cookie_2", "Cookie", "cookie">>
    /\ msg.out.panic

\* What follows the first CRLF CRLF of a buffer.
BodyOf(buf) ==
    LET i == Index(buf, CRLF \o CRLF)
    IN  IF i = -1 THEN "" ELSE SubSeq(buf, i + 5, Len(buf))

\* Bytes has been called on a request that was made from a buffer with
\* ||CLEN|| in a header and went through one of the two transforms.
EmittedWithClen ==
    /\ Emitted
    /\ msg.transform \in {"PrepareRequest", "PrepareRequestVariables"}
    /\ \E i \in 1..Len(HeadLines(msg.raw)) : Contains(HeadLines(msg.raw)[i], "||CLEN||")

\* C22: after the full prepare or the variable-expansion transform every
\* ||CLEN|| in a header stands replaced by the decimal length of the final
\* body: the header lines emitted are those of the buffer with the token
\* replaced by the length of the body emitted, and that body is expanded
\* and cut at ||END||; the body ping||END||pong gives ping and
\* Content-Length: 4.
C22_ClenIsFinalBodyLength ==
    EmittedWithClen =>
        LET out == msg.out.bytes
            body == BodyOf(out)
            given == Tail(HeadLines(msg.raw))
        IN  /\ ~msg.out.panic
            /\ body = msg.req.body
            /\ ~Contains(body, "||END||") /\ ~Contains(body, "||HOST||")
            /\ Tail(HeadLines(out))
                 = [i \in 1..Len(given) |->
                       ReplaceAll(given[i], "||CLEN||", Itoa(Len(body)))]
            /\ BodyOf(msg.raw) = "ping||END||pong" =>
                   /\ body = "ping"
                   /\ Tail(HeadLines(out)) = <<"Content-Length: 4">>

\* C22 witness: the request with the body ping||END||pong went through
\* PrepareRequest and was emitted with Content-Length: 4 and the body ping.
C22_Witness ==
    /\ Emitted
    /\ msg.transform = "PrepareRequest"
    /\ BodyOf(msg.raw) = "ping||END||pong"
    /\ msg.out.bytes = "POST / HTTP/1.1\r\nContent-Length: 4\r\n\r\nping"

\* The name of a header line: what stands before its first colon, trimmed
\* and in lower case; the empty name for a line without a colon.
NameOfLine(line) ==
    IF Contains(line, ":") THEN ToLower(TrimSpace(Split(line, ":")[1])) ELSE ""

\* The value of a header line: what stands behind its first colon, trimmed
\* and in lower case.
ValueOfLine(line) ==
    ToLower(TrimSpace(SubSeq(line, Index(line, ":") + 2, Len(line))))

\* What ConnectionClose is to answer for a raw response: true when it is
\* empty or has no CRLF CRLF; otherwise whether the first line of the head,
\* the status line apart, that is named connection has the value close.
ClosesByFirstConnectionHeader(raw) ==
    IF raw = "" \/ ~Contains(raw, CRLF \o CRLF) THEN TRUE
    ELSE LET lines == Tail(Split(Split(raw, CRLF \o CRLF)[1], CRLF))
             named == {i \in 1..Len(lines) : NameOfLine(lines[i]) = "connection"}
         IN  /\ named # {}
             /\ ValueOfLine(lines[CHOOSE i \in named : \A j \in named : i <= j]) = "close"

\* The caller has asked resp.ConnectionClose().
Asked == pc[Caller] = "response" /\ msg.asked

\* C29: ConnectionClose answers true for an empty response and for one
\* without CRLF CRLF; otherwise it answers by the first Connection header of
\* the head alone, true iff its value, trimmed and in lower case, is close,
\* and false when the head has none; a later Connection: close and the
\* value keep-alive, close do not make it true.
C29_ConnectionCloseByFirstHeader ==
    Asked =>
        LET raw == msg.resp.Rawdata IN
        /\ msg.closes = ClosesByFirstConnectionHeader(raw)
        /\ raw = "HTTP/1.1 200 OK\r\nConnection: keep-alive\r\nConnection: close\r\n\r\n"
              => ~msg.closes
        /\ raw = "HTTP/1.1 200 OK\r\nConnection: keep-alive, close\r\n\r\n"
              => ~msg.closes
        /\ raw \in {"", "HTTP/1.1 200 OK\r\nConnection: keep-alive\r\n"} => msg.closes
        /\ raw = "HTTP/1.1 200 OK\r\n\r\n" => ~msg.closes

\* C29 witness: ConnectionClose answered false for a head whose second
\* Connection header says close.
C29_Witness ==
    /\ Asked
    /\ msg.resp.Rawdata
         = "HTTP/1.1 200 OK\r\nConnection: keep-alive\r\nConnection: close\r\n\r\n"
    /\ ~msg.closes

\* Do has been called a second time with the request of the first call and
\* has come to its Write.
EmittedAgain == pc[Caller] = "emitted again"

\* C38 as stated: a request that is not mutated between two calls of Do is
\* written by the second call with the bytes of the first, under the full
\* prepare and under the variable expansion, also when it held ||CR||,
\* ||LF|| or other tokens.
C38_SecondSendWritesSameBytes ==
    EmittedAgain => msg.out = msg.first

\* C38, the part that holds: the second call writes what the first wrote
\* under the variable expansion, and under the full prepare what
\* prepareBytes makes of the bytes of the first: the same bytes when the
\* buffer held no ||LF||, and Bytes() panics in the second call exactly when
\* it did in the first.
C38_SecondSendRepeatsLineEndings ==
    EmittedAgain =>
        /\ msg.out.panic = msg.first.panic
        /\ msg.transform = "PrepareRequestVariables" => msg.out = msg.first
        /\ msg.transform = "PrepareRequest"
              => msg.out.bytes = prepareBytes(msg.first.bytes)
        /\ ~Contains(msg.raw, "||LF||") => msg.out = msg.first

\* C38 witness: the request with the body a||LF||b went through
\* PrepareRequest twice; the first call wrote the body a LF b, the second
\* a CRLF b.
C38_Witness ==
    /\ EmittedAgain
    /\ msg.transform = "PrepareRequest"
    /\ BodyOf(msg.raw) = "a||LF||b"
    /\ BodyOf(msg.first.bytes) = "a\nb"
    /\ BodyOf(msg.out.bytes) = "a\r\nb"

\* The positions of the stored headers are pairwise distinct and are
\* exactly 0..n-1 for n stored headers.
PositionsDense(headers) ==
    LET n == Cardinality(DOMAIN headers)
    IN  /\ {headers[k].Pos : k \in DOMAIN headers} = 0..(n - 1)
        /\ \A j, k \in DOMAIN headers : headers[j].Pos = headers[k].Pos => j = k

\* The header lines Bytes() has emitted, empty ones included.
EmittedLines(out) == Tail(Split(Split(out, CRLF \o CRLF)[1], CRLF))

\* The caller's step is a call of SetHeader.
SetsHeader == frame'[Caller].sets = msg.sets + 1

\* C39 as stated: after a successful ParseRawdata and any SetHeader calls
\* the positions of the stored headers are pairwise distinct and exactly
\* 0..n-1, and Bytes() does not panic and emits n header lines, none of
\* them empty.
C39_PositionsDense ==
    /\ pc[Caller] \in {"parsed", "header set"} => PositionsDense(msg.req.headers)
    /\ pc[Caller] = "emitted set" =>
          /\ ~msg.out.panic
          /\ LET lines == EmittedLines(msg.out.bytes)
             IN  /\ Len(lines) = Cardinality(DOMAIN msg.req.headers)
                 /\ \A i \in 1..Len(lines) : lines[i] # ""

\* C39, the part that holds: SetHeader on a stored key changes no position
\* and no key, SetHeader on a new key stores it with position n, the number
\* of headers stored before, and leaves the others where they are, so that
\* SetHeader keeps positions that are exactly 0..n-1 so; they are after
\* ParseRawdata of a buffer that does not repeat a name behind a header
\* named "<name>_<i>"; and with such positions Bytes() does not panic and
\* emits the stored headers, each once, in the order of their positions.
C39_SetHeaderKeepsDense ==
    /\ [][SetsHeader =>
            LET old == msg.req.headers
                new == frame'[Caller].req.headers
            IN  /\ DOMAIN old \subseteq DOMAIN new
                /\ \A k \in DOMAIN old : new[k].Pos = old[k].Pos
                /\ \A k \in DOMAIN new \ DOMAIN old :
                      new[k].Pos = Cardinality(DOMAIN old)
                /\ Cardinality(DOMAIN new \ DOMAIN old) <= 1
                /\ PositionsDense(old) => PositionsDense(new)]_vars
    /\ [](pc[Caller] \in {"parsed", "header set", "emitted set"}
            /\ ~SuffixClash(HeaderNamesOf(msg.raw))
            => PositionsDense(msg.req.headers))
    /\ [](pc[Caller] = "emitted set" /\ PositionsDense(msg.req.headers) =>
            LET h == msg.req.headers
                lines == EmittedLines(msg.out.bytes)
            IN  /\ ~msg.out.panic
                /\ Len(lines) = Cardinality(DOMAIN h)
                /\ \A k \in DOMAIN h :
                      lines[h[k].Pos + 1] = h[k].Key \o ": " \o h[k].Value)

\* C39 witness: after ParseRawdata of the headers Cookie_2, Cookie, cookie
\* (two stored, at positions 1 and 2) one SetHeader stored X-New at
\* position 2 as well, and Bytes() emitted an empty line for position 0,
\* which ends the head before the header Cookie.
C39_Witness ==
    /\ pc[Caller] = "emitted set"
    /\ msg.sets = 1
    /\ HeaderNamesOf(msg.raw) = <<"Cookie_2", "Cookie", "cookie">>
    /\ DOMAIN msg.req.headers = {"cookie", "cookie_2", "x-new"}
    /\ msg.req.headers["x-new"].Pos = 2 /\ msg.req.headers["cookie_2"].Pos = 2
    /\ ~msg.out.panic
    /\ HasPrefix(msg.out.bytes, "GET / HTTP/1.1\r\n\r\nCookie: v2\r\n")
====
